---- MODULE Spec2Model ----
(***************************************************************************)
(* BloomingSongs: the ingestion passes of the four provider paths          *)
(* (fetch_ebird_data, fetch_singing_data, fetch_inaturalist_data,          *)
(* fetch_inatsounds_data) writing the bird_observations table, and the     *)
(* trend computation of get_bird_trends / calculate_trends.                *)
(*                                                                         *)
(* Modelling conventions                                                   *)
(*  - the table is the sequence `store`; a row's id is its index           *)
(*    (autoincrement primary key), Query.first() returns the lowest id;    *)
(*  - a timestamp is a day number; a raw date string is the day number it  *)
(*    parses to, and 0 stands for a missing or unparseable string;         *)
(*  - datetime.now() of a pass is NowOf(clock), later than every           *)
(*    observation day of the samples;                                      *)
(*  - Python None/"" of an optional string is "".                          *)
(***************************************************************************)
EXTENDS Integers, Sequences, FiniteSets, TLC

VARIABLES
    store,      \* committed rows of bird_observations
    clock,      \* number of ingestion passes run so far
    path,       \* provider path of the last pass ("none" before the first)
    batch,      \* candidates the last pass handed to its save operation
    saved,      \* first component of the last save's return value
    skipped,    \* second component (skipped, or updated for 'singing')
    store0,     \* the table as it was when the last pass began
    path0,      \* provider path of the pass before the last
    batch0,     \* candidates of the pass before the last
    op,         \* the trend computation that ran ("none" before it)
    q_current,  \* rows of its current-window grouped query
    q_previous, \* previous_counts, the dict of its previous-window query
    min_observations,
    limit,
    trends,     \* the list get_bird_trends returned
    bird_trends, \* rows of the bird_trends table
    q_scope,    \* region_code, days and now of a trend computation on the table
    coords,     \* a call of get_region_from_coords and what it returned
    run,        \* one execution of an adapter's main(): its position and outcome
    calls,      \* the remote calls and sleeps of that execution, in order
    combined,   \* one execution of fetch_all_data.main()
    trend_run,  \* a trend computation in progress: its position and what it read
    sessions,   \* the sessions of ingestion passes that run at the same time
    paged       \* a call of fetch_bird_audio_observations on a paging service

ingestVars == <<store, clock, path, batch, saved, skipped, store0, path0, batch0>>
trendVars == <<op, q_current, q_previous, min_observations, limit, trends, bird_trends>>
laterVars == <<q_scope, coords, run, calls, combined, trend_run, sessions, paged>>
vars == <<store, clock, path, batch, saved, skipped, store0, path0, batch0,
          op, q_current, q_previous, min_observations, limit, trends, bird_trends,
          q_scope, coords, run, calls, combined, trend_run, sessions, paged>>

\* ---------------------------------------------------------------- bounds
MaxPasses == 2      \* ingestion passes per behaviour
MaxBatch == 2       \* raw records (or checklists) fetched per pass
MaxCount == 12      \* largest count of a one-species trend query
MaxMin == 6         \* largest min_observations
MaxLimit == 3       \* largest limit
LowCount == 2       \* largest count of a several-species trend query
MaxScopes == 2      \* scopes (regions, places, splits) of one execution of main()
MaxFills == 1       \* passes that fill the table before a trend computation on its windows
MaxSessions == 2    \* ingestion passes that run at the same time
MaxRuns == 2        \* trend computations begun in one behaviour
MaxFifties == 12    \* result lists and max_results of up to 50 * MaxFifties items
MaxDetails == 2     \* checklists of a region listing, records of a region fetch, pages of a place
CoordMargin == 3    \* tenths of a degree the coordinates go beyond the boxes

\* ------------------------------------------------------------- utilities
Min(S) == CHOOSE x \in S : \A y \in S : x <= y

NowOf(c) == 100 + c

RECURSIVE SeqsUpTo(_, _)
SeqsUpTo(S, n) ==
    IF n = 0 THEN {<<>>}
    ELSE LET shorter == SeqsUpTo(S, n - 1)
         IN shorter \cup {Append(s, x) : s \in {t \in shorter : Len(t) = n - 1}, x \in S}

\* -------------------------------------------------- session and queries
\* A session created by SessionLocal has autoflush = False: a query reads
\* the rows of the table (with the in-place changes this session made to
\* them) and never the objects added and not yet flushed by a commit.
\* clean is the table as of the last commit, commits the number of commits
\* done, raised tells that a commit raised; the fail_at-th commit of the
\* session is the one that fails (0: none does).
NewSession(rows) ==
    [db |-> rows, pending |-> <<>>, saved |-> 0, skipped |-> 0,
     clean |-> rows, commits |-> 0, fail_at |-> 0, raised |-> FALSE]

FailingSession(rows, k) == [NewSession(rows) EXCEPT !.fail_at = k]

\* a failing commit after which the added rows are in the table
CommitKeepsPending(s) ==
    IF s.raised THEN s
    ELSE IF s.commits + 1 = s.fail_at
    THEN [s EXCEPT !.raised = TRUE, !.db = s.db \o s.pending, !.pending = <<>>]
    ELSE [s EXCEPT !.db = s.db \o s.pending, !.pending = <<>>,
                   !.clean = s.db \o s.pending, !.commits = s.commits + 1]

\* db_session.commit(); when it raises, the exception leaves the save and
\* main() rolls the session back: added rows and in-place changes are gone
Commit(s) ==
    IF s.raised THEN s
    ELSE IF s.commits + 1 = s.fail_at
    THEN [s EXCEPT !.raised = TRUE, !.db = s.clean, !.pending = <<>>]
    ELSE [s EXCEPT !.db = s.db \o s.pending, !.pending = <<>>,
                   !.clean = s.db \o s.pending, !.commits = s.commits + 1]

\* .first() of a filter on (species_code, location_id, observation_date):
\* index of the first matching row, 0 for None.
FirstByKey(rows, sp, loc, dt) ==
    LET m == {i \in 1..Len(rows) :
                 /\ rows[i].species_code = sp
                 /\ rows[i].location_id = loc
                 /\ rows[i].observation_date = dt}
    IN IF m = {} THEN 0 ELSE Min(m)

\* the filter written on region_code instead of location_id
FirstByRegionSource(rows, loc, src) ==
    LET m == {i \in 1..Len(rows) :
                 /\ rows[i].region_code = loc
                 /\ rows[i].source = src}
    IN IF m = {} THEN 0 ELSE Min(m)

\* .first() of a filter on (location_id, source)
FirstByLocSource(rows, loc, src) ==
    LET m == {i \in 1..Len(rows) :
                 /\ rows[i].location_id = loc
                 /\ rows[i].source = src}
    IN IF m = {} THEN 0 ELSE Min(m)

\* ------------------------------------------ checklist 'singing' path
SINGING_CODES == {"S", "S1", "S7", "OS"}
COURTSHIP_CODES == {"C", "CC", "D"}
VOCALIZATION_CODES == SINGING_CODES \cup COURTSHIP_CODES

DEFAULT_REGIONS == <<"US-CA", "US-NY", "US-TX", "US-FL">>

\* get_taxonomy: speciesCode -> comName, for the species it knows
Taxonomy == [amerob |-> "American Robin"]

ComNameOf(sp) == IF sp \in DOMAIN Taxonomy THEN Taxonomy[sp] ELSE sp

\* the loop over obs["obsAux"]: breeding_code is the last breeding code seen,
\* the two flags accumulate
RECURSIVE ScanAux(_, _)
ScanAux(aux, acc) ==
    IF aux = <<>> THEN acc
    ELSE LET a == Head(aux)
             next ==
                IF a.fieldName = "breeding_code"
                THEN [breeding_code |-> a.auxCode,
                      is_singing |-> acc.is_singing \/ a.auxCode \in SINGING_CODES,
                      is_courtship |-> acc.is_courtship
                            \/ (a.auxCode \notin SINGING_CODES
                                /\ a.auxCode \in COURTSHIP_CODES)]
                ELSE acc
         IN ScanAux(Tail(aux), next)

RECURSIVE ExtractObs(_, _, _, _)
ExtractObs(obs, obs_date, loc_id, subnational1) ==
    IF obs = <<>> THEN <<>>
    ELSE LET o == Head(obs)
             f == ScanAux(o.obsAux,
                          [breeding_code |-> "", is_singing |-> FALSE,
                           is_courtship |-> FALSE])
             rest == ExtractObs(Tail(obs), obs_date, loc_id, subnational1)
         IN IF f.is_singing \/ f.is_courtship
            THEN <<[species_code |-> o.speciesCode,
                    observation_date |-> obs_date,
                    location_id |-> loc_id,
                    region_code |-> subnational1,
                    how_many |-> o.howManyStr,
                    breeding_code |-> f.breeding_code,
                    is_singing |-> f.is_singing,
                    is_courtship |-> f.is_courtship]>> \o rest
            ELSE rest

extract_singing_observations(checklist, region_code, now) ==
    LET obs_date == IF checklist.obsDt > 0 THEN checklist.obsDt ELSE now
        subnational1 == IF checklist.subnational1Code = "" THEN region_code
                        ELSE checklist.subnational1Code
    IN ExtractObs(checklist.obs, obs_date, checklist.locId, subnational1)

RECURSIVE fetch_region_singing_data(_, _, _)
fetch_region_singing_data(checklists, region_code, now) ==
    IF checklists = <<>> THEN <<>>
    ELSE extract_singing_observations(Head(checklists), region_code, now)
            \o fetch_region_singing_data(Tail(checklists), region_code, now)

\* the row save_singing_observations builds for a candidate without a match
SingingRow(obs, now) ==
    [species_code |-> obs.species_code,
     common_name |-> ComNameOf(obs.species_code),
     observation_date |-> obs.observation_date,
     location_id |-> obs.location_id,
     region_code |-> obs.region_code,
     observation_count |-> obs.how_many,
     is_vocal |-> IF obs.is_singing THEN 1 ELSE 0,
     has_media |-> IF obs.breeding_code # "" THEN 1 ELSE 0,
     approved |-> 1,
     source |-> "ebird_singing",
     fetched_at |-> now]

\* the flag of a found row set as the flag of a new row is
SingingUpdateAsInsert(row, obs) ==
    [row EXCEPT !.is_vocal = IF obs.is_singing THEN 1 ELSE 0]

\* a found row refreshed from the candidate
SingingUpdateRefresh(row, obs) ==
    [row EXCEPT !.is_vocal = 1, !.observation_count = obs.how_many, !.approved = 1]

\* what save_singing_observations does to a row it found
SingingUpdate(row, obs) ==
    IF obs.is_singing \/ obs.is_courtship THEN [row EXCEPT !.is_vocal = 1] ELSE row

\* a found row counted as updated only for a singing code
SingingStepSingingOnly(s, obs, now) ==
    LET e == FirstByKey(s.db, obs.species_code, obs.location_id, obs.observation_date)
    IN IF e # 0
       THEN [s EXCEPT !.db[e] = SingingUpdate(s.db[e], obs),
                      !.skipped = IF obs.is_singing THEN s.skipped + 1 ELSE s.skipped]
       ELSE [s EXCEPT !.pending = Append(s.pending, SingingRow(obs, now)),
                      !.saved = s.saved + 1]

\* one iteration of the loop of save_singing_observations
SingingStep(s, obs, now) ==
    LET e == FirstByKey(s.db, obs.species_code, obs.location_id, obs.observation_date)
    IN IF e # 0
       THEN [s EXCEPT !.db[e] = SingingUpdate(s.db[e], obs),
                      !.skipped = IF obs.is_singing \/ obs.is_courtship
                                  THEN s.skipped + 1 ELSE s.skipped]
       ELSE [s EXCEPT !.pending = Append(s.pending, SingingRow(obs, now)),
                      !.saved = s.saved + 1]

RECURSIVE SingingLoop(_, _, _)
SingingLoop(s, observations, now) ==
    IF observations = <<>> THEN s
    ELSE SingingLoop(SingingStep(s, Head(observations), now), Tail(observations), now)

save_singing_observations(rows, observations, now) ==
    Commit(SingingLoop(NewSession(rows), observations, now))

\* ------------------------------------------ generic checklist path
\* process_observation: <<>> for None (the date does not parse), else the
\* BirdObservation it builds; main() always passes a region_code
process_observation(obs_data, region_code, now) ==
    IF obs_data.obsDt > 0
    THEN <<[species_code |-> obs_data.speciesCode,
            common_name |-> obs_data.comName,
            observation_date |-> obs_data.obsDt,
            location_id |-> obs_data.locId,
            region_code |-> region_code,
            observation_count |-> obs_data.howMany,
            is_vocal |-> IF obs_data.hasMedia THEN 1 ELSE 0,
            has_media |-> IF obs_data.hasMedia THEN 1 ELSE 0,
            approved |-> IF obs_data.obsValid THEN 1 ELSE 0,
            source |-> "ebird",
            fetched_at |-> now]>>
    ELSE <<>>

RECURSIVE ProcessEbird(_, _, _)
ProcessEbird(obs_data_list, region_code, now) ==
    IF obs_data_list = <<>> THEN <<>>
    ELSE process_observation(Head(obs_data_list), region_code, now)
            \o ProcessEbird(Tail(obs_data_list), region_code, now)

\* a found row takes the candidate's flag and count
EbirdStepMerge(s, obs) ==
    LET e == FirstByKey(s.db, obs.species_code, obs.location_id, obs.observation_date)
    IN IF e = 0
       THEN [s EXCEPT !.pending = Append(s.pending, obs), !.saved = s.saved + 1]
       ELSE [s EXCEPT !.db[e].is_vocal = obs.is_vocal,
                      !.db[e].observation_count = obs.observation_count,
                      !.skipped = s.skipped + 1]

\* one iteration of the loop of fetch_ebird_data.save_observations
EbirdStep(s, obs) ==
    LET e == FirstByKey(s.db, obs.species_code, obs.location_id, obs.observation_date)
    IN IF e = 0
       THEN [s EXCEPT !.pending = Append(s.pending, obs), !.saved = s.saved + 1]
       ELSE [s EXCEPT !.skipped = s.skipped + 1]

RECURSIVE EbirdLoop(_, _)
EbirdLoop(s, observations) ==
    IF observations = <<>> THEN s
    ELSE EbirdLoop(EbirdStep(s, Head(observations)), Tail(observations))

ebird_save_observations(rows, observations) ==
    Commit(EbirdLoop(NewSession(rows), observations))

\* ------------------------------------------ crowd-sourced path
PLACE_ID_TO_REGION ==
    [p \in {14, 48, 18, 21, 39, 37, 3, 6} |->
        CASE p = 14 -> "US-CA" [] p = 48 -> "US-NY" [] p = 18 -> "US-TX"
          [] p = 21 -> "US-FL" [] p = 39 -> "US-WA" [] p = 37 -> "US-OR"
          [] p = 3 -> "US-AZ" [] p = 6 -> "US-CO"]

DEFAULT_PLACE_IDS == <<14, 48, 18, 21>>

\* taxon['name'].replace(' ', '_') on the taxon names of the samples
Underscored(name) ==
    CASE name = "Turdus migratorius" -> "Turdus_migratorius"
      [] name = "Cardinalis cardinalis" -> "Cardinalis_cardinalis"
      [] OTHER -> name

\* process_inaturalist_observation: <<>> for None (no taxon), else the
\* dict; obs.taxon is <<>> or <<name>>, the name "" when the taxon has none
process_inaturalist_observation(obs, region_code, now) ==
    IF obs.taxon = <<>> THEN <<>>
    ELSE <<[species_code |-> "inat_" \o Underscored(obs.taxon[1]),
            common_name |-> IF obs.taxon[1] # "" THEN obs.taxon[1]
                            ELSE Underscored(obs.taxon[1]),
            observation_date |-> IF obs.observed_on > 0 THEN obs.observed_on ELSE now,
            location_id |-> "inat_" \o obs.id,
            region_code |-> region_code,
            observation_count |-> IF obs.sounds > 1 THEN ToString(obs.sounds) ELSE "1",
            has_media |-> 1,
            is_vocal |-> 1,
            source |-> "inaturalist"]>>

RECURSIVE fetch_region_data(_, _, _)
fetch_region_data(raw_observations, region_code, now) ==
    IF raw_observations = <<>> THEN <<>>
    ELSE process_inaturalist_observation(Head(raw_observations), region_code, now)
            \o fetch_region_data(Tail(raw_observations), region_code, now)

\* the row both crowd-sourced and bulk-annotation saves build from a dict
DictRow(obs, now) ==
    [species_code |-> obs.species_code,
     common_name |-> obs.common_name,
     observation_date |-> obs.observation_date,
     location_id |-> obs.location_id,
     region_code |-> obs.region_code,
     observation_count |-> obs.observation_count,
     is_vocal |-> obs.is_vocal,
     has_media |-> obs.has_media,
     approved |-> 1,
     source |-> obs.source,
     fetched_at |-> now]

\* one iteration of the loop of save_inaturalist_observations
INatStep(s, obs, now) ==
    IF FirstByLocSource(s.db, obs.location_id, "inaturalist") # 0
    THEN [s EXCEPT !.skipped = s.skipped + 1]
    ELSE [s EXCEPT !.pending = Append(s.pending, DictRow(obs, now)),
                   !.saved = s.saved + 1]

RECURSIVE INatLoop(_, _, _)
INatLoop(s, observations, now) ==
    IF observations = <<>> THEN s
    ELSE INatLoop(INatStep(s, Head(observations), now), Tail(observations), now)

save_inaturalist_observations(rows, observations, now) ==
    Commit(INatLoop(NewSession(rows), observations, now))

\* ------------------------------------------ bulk-annotation path
\* coordinates are tenths of a degree; an optional float is <<>> or <<x>>
RegionBoxes ==
    << [code |-> "US-CA", min_lat |-> 325, max_lat |-> 420, min_lon |-> -1245, max_lon |-> -1140],
       [code |-> "US-NY", min_lat |-> 405, max_lat |-> 450, min_lon |-> -798, max_lon |-> -718],
       [code |-> "US-TX", min_lat |-> 258, max_lat |-> 365, min_lon |-> -1067, max_lon |-> -935],
       [code |-> "US-FL", min_lat |-> 245, max_lat |-> 310, min_lon |-> -876, max_lon |-> -800],
       [code |-> "US-WA", min_lat |-> 455, max_lat |-> 490, min_lon |-> -1248, max_lon |-> -1169],
       [code |-> "US-OR", min_lat |-> 420, max_lat |-> 463, min_lon |-> -1246, max_lon |-> -1165],
       [code |-> "US-AZ", min_lat |-> 313, max_lat |-> 370, min_lon |-> -1148, max_lon |-> -1090],
       [code |-> "US-CO", min_lat |-> 370, max_lat |-> 410, min_lon |-> -1091, max_lon |-> -1020] >>

\* the test with the bounds excluded
BoxContainsExclusive(b, lat, lon) ==
    /\ b.min_lat < lat /\ lat < b.max_lat
    /\ b.min_lon < lon /\ lon < b.max_lon

\* min_lat <= lat <= max_lat and min_lon <= lon <= max_lon
BoxContains(b, lat, lon) ==
    /\ b.min_lat <= lat /\ lat <= b.max_lat
    /\ b.min_lon <= lon /\ lon <= b.max_lon

\* a scan that goes on after a match and keeps the last one
RECURSIVE RegionScanLast(_, _, _)
RegionScanLast(lat, lon, k) ==
    IF k > Len(RegionBoxes) THEN ""
    ELSE LET later == RegionScanLast(lat, lon, k + 1)
         IN IF later # "" THEN later
            ELSE IF BoxContains(RegionBoxes[k], lat, lon) THEN RegionBoxes[k].code
            ELSE ""

\* the loop over regions.items() from its k-th item on: it returns at the
\* first box that contains the point
RECURSIVE RegionScan(_, _, _)
RegionScan(lat, lon, k) ==
    IF k > Len(RegionBoxes) THEN ""
    ELSE IF BoxContains(RegionBoxes[k], lat, lon) THEN RegionBoxes[k].code
    ELSE RegionScan(lat, lon, k + 1)

get_region_from_coords(lat, lon) ==
    IF lat = <<>> \/ lon = <<>> THEN "" ELSE RegionScan(lat[1], lon[1], 1)

\* filter_bird_observations on one audio record joined with its annotation
\* and category (category_class "" when either lookup finds nothing)
FilterAudio(audio) ==
    IF audio.category_class # "Aves" \/ audio.date = 0 THEN <<>>
    ELSE <<[species_code |-> "inat_" \o Underscored(audio.name),
            common_name |-> audio.name,
            observation_date |-> audio.date,
            location_id |-> "inatsounds_" \o audio.id,
            region_code |-> get_region_from_coords(audio.latitude, audio.longitude),
            observation_count |-> "1",
            has_media |-> 1,
            is_vocal |-> 1,
            source |-> "inatsounds"]>>

\* the loop over the audio records, as the loop over their first half
\* followed by the loop over the rest (a split has more than 1000 records)
RECURSIVE filter_bird_observations(_)
filter_bird_observations(audio_records) ==
    IF audio_records = <<>> THEN <<>>
    ELSE IF Len(audio_records) = 1 THEN FilterAudio(audio_records[1])
    ELSE LET h == Len(audio_records) \div 2
         IN filter_bird_observations(SubSeq(audio_records, 1, h))
            \o filter_bird_observations(SubSeq(audio_records, h + 1, Len(audio_records)))

\* us_birds = [b for b in bird_obs if b['region_code']]
us_birds(bird_obs) == SelectSeq(bird_obs, LAMBDA b : b.region_code # "")

CommitEvery == 1000

\* one iteration of the loop of fetch_inatsounds_data.save_observations
SoundsStep(s, obs, now) ==
    IF FirstByLocSource(s.db, obs.location_id, "inatsounds") # 0
    THEN [s EXCEPT !.skipped = s.skipped + 1]
    ELSE LET t == [s EXCEPT !.pending = Append(s.pending, DictRow(obs, now)),
                            !.saved = s.saved + 1]
         IN IF t.saved % CommitEvery = 0 THEN Commit(t) ELSE t

\* the loop over the candidates, halved in the same way; the exception of
\* a failed commit ends it
RECURSIVE SoundsLoop(_, _, _)
SoundsLoop(s, observations, now) ==
    IF observations = <<>> \/ s.raised THEN s
    ELSE IF Len(observations) = 1 THEN SoundsStep(s, observations[1], now)
    ELSE LET h == Len(observations) \div 2
         IN SoundsLoop(SoundsLoop(s, SubSeq(observations, 1, h), now),
                       SubSeq(observations, h + 1, Len(observations)), now)

sounds_save_observations(rows, observations, now) ==
    Commit(SoundsLoop(NewSession(rows), observations, now))

\* ------------------------------------------------------- trend engine
\* A Python float of the trend computation is the exact rational n/d in
\* lowest terms, d > 0.  For counts below 160 the float result of
\* ((c - p) / p) * 100 compares with 10 and -10, and rounds to 2 decimals,
\* as the exact quotient does; so it does for the counts 1 and 40000,
\* whose quotient is not within 0.002 of a threshold or of a rounding tie.
Abs(x) == IF x < 0 THEN -x ELSE x

RECURSIVE GCD(_, _)
GCD(a, b) == IF b = 0 THEN a ELSE GCD(b, a % b)

Float(n, d) == LET g == GCD(Abs(n), d) IN [n |-> n \div g, d |-> d \div g]

FloatLess(x, y) == x.n * y.d < y.n * x.d

FloatAbs(x) == [x EXCEPT !.n = Abs(x.n)]

\* round(x, 2): the nearest multiple of 0.01, a tie going to the even one
Round2(x) ==
    LET a == x.n * 100
        q == a \div x.d
        r == a % x.d
        h == IF 2 * r > x.d THEN q + 1
             ELSE IF 2 * r = x.d THEN q + (q % 2)
             ELSE q
    IN Float(h, 100)

\* {r.species_code: {"common_name": ..., "count": ...} for r in rows}: a
\* dict keeps a key at the place of its first insertion and the value of
\* its last
RECURSIVE BuildCurrentCounts(_, _)
BuildCurrentCounts(rows, acc) ==
    IF rows = <<>> THEN acc
    ELSE LET r == Head(rows)
             at == {k \in 1..Len(acc) : acc[k].species_code = r.species_code}
         IN BuildCurrentCounts(Tail(rows),
                IF at = {} THEN Append(acc, r)
                ELSE [acc EXCEPT ![Min(at)] = r])

\* previous_counts.get(species_code, 0)
PreviousCount(previous_counts, species_code) ==
    IF species_code \in DOMAIN previous_counts THEN previous_counts[species_code] ELSE 0

\* a species new in the current window taken for unchanged
ChangePercentNewIsZero(current_count, previous_count) ==
    IF previous_count > 0
    THEN Float((current_count - previous_count) * 100, previous_count)
    ELSE Float(0, 1)

ChangePercent(current_count, previous_count) ==
    IF previous_count > 0
    THEN Float((current_count - previous_count) * 100, previous_count)
    ELSE IF current_count > 0 THEN Float(100, 1)
    ELSE Float(0, 1)

\* the thresholds taken inclusive
TrendDirectionInclusive(change_percent) ==
    IF ~FloatLess(change_percent, Float(10, 1)) THEN "rising"
    ELSE IF ~FloatLess(Float(-10, 1), change_percent) THEN "falling"
    ELSE "stable"

TrendDirection(change_percent) ==
    IF FloatLess(Float(10, 1), change_percent) THEN "rising"
    ELSE IF FloatLess(change_percent, Float(-10, 1)) THEN "falling"
    ELSE "stable"

\* `or` for `and`
BelowMinimumEither(current_count, previous_count, min_obs) ==
    current_count < min_obs \/ previous_count < min_obs

\* "Skip if below minimum observations"
BelowMinimum(current_count, previous_count, min_obs) ==
    current_count < min_obs /\ previous_count < min_obs

\* the dict get_bird_trends appends for a species it keeps
TrendEntry(data, previous_count) ==
    LET change_percent == ChangePercent(data.count, previous_count)
    IN [species_code |-> data.species_code,
        common_name |-> data.common_name,
        current_count |-> data.count,
        previous_count |-> previous_count,
        change_percent |-> Round2(change_percent),
        trend_direction |-> TrendDirection(change_percent)]

\* the loop run over the species of the previous window as well
RECURSIVE TrendLoopBothWindows(_, _, _)
TrendLoopBothWindows(current_counts, previous_counts, min_obs) ==
    LET seen == {current_counts[k].species_code : k \in 1..Len(current_counts)}
        missing == (DOMAIN previous_counts) \ seen
    IN IF missing # {}
       THEN LET sp == CHOOSE x \in missing : TRUE
            IN TrendLoopBothWindows(
                   Append(current_counts,
                          [species_code |-> sp, common_name |-> sp, count |-> 0]),
                   previous_counts, min_obs)
       ELSE IF current_counts = <<>> THEN <<>>
       ELSE LET data == Head(current_counts)
                previous_count == PreviousCount(previous_counts, data.species_code)
                others == [x \in (DOMAIN previous_counts) \ {data.species_code}
                              |-> previous_counts[x]]
                rest == TrendLoopBothWindows(Tail(current_counts), others, min_obs)
            IN IF BelowMinimum(data.count, previous_count, min_obs) THEN rest
               ELSE <<TrendEntry(data, previous_count)>> \o rest

RECURSIVE TrendLoop(_, _, _)
TrendLoop(current_counts, previous_counts, min_obs) ==
    IF current_counts = <<>> THEN <<>>
    ELSE LET data == Head(current_counts)
             previous_count == PreviousCount(previous_counts, data.species_code)
             rest == TrendLoop(Tail(current_counts), previous_counts, min_obs)
         IN IF BelowMinimum(data.count, previous_count, min_obs) THEN rest
            ELSE <<TrendEntry(data, previous_count)>> \o rest

\* a sort that puts an entry before the entries of the same key
SortInsertUnstable(sorted, x) ==
    LET ahead == {k \in 1..Len(sorted) :
                     FloatLess(FloatAbs(x.change_percent),
                               FloatAbs(sorted[k].change_percent))}
        n == Cardinality(ahead)
    IN SubSeq(sorted, 1, n) \o <<x>> \o SubSeq(sorted, n + 1, Len(sorted))

\* trends.sort(key=lambda x: abs(x["change_percent"]), reverse=True): the
\* sort is stable, reverse=True included, so an entry goes after every entry
\* already placed whose key is not smaller
SortInsert(sorted, x) ==
    LET ahead == {k \in 1..Len(sorted) :
                     ~FloatLess(FloatAbs(sorted[k].change_percent),
                                FloatAbs(x.change_percent))}
        n == Cardinality(ahead)
    IN SubSeq(sorted, 1, n) \o <<x>> \o SubSeq(sorted, n + 1, Len(sorted))

RECURSIVE SortByAbsChange(_, _)
SortByAbsChange(entries, sorted) ==
    IF entries = <<>> THEN sorted
    ELSE SortByAbsChange(Tail(entries), SortInsert(sorted, Head(entries)))

\* trends[:limit]
Truncate(entries, n) ==
    IF n >= 0 THEN SubSeq(entries, 1, IF n < Len(entries) THEN n ELSE Len(entries))
    ELSE SubSeq(entries, 1, IF Len(entries) + n > 0 THEN Len(entries) + n ELSE 0)

get_bird_trends(current_rows, previous_counts, min_obs, lim) ==
    Truncate(SortByAbsChange(TrendLoop(BuildCurrentCounts(current_rows, <<>>),
                                       previous_counts, min_obs), <<>>), lim)

\* the BirdTrend row calculate_trends adds for a species
BirdTrendRow(data, previous_count) ==
    LET change_percent == ChangePercent(data.count, previous_count)
    IN [species_code |-> data.species_code,
        common_name |-> data.common_name,
        current_count |-> data.count,
        previous_count |-> previous_count,
        change_percent |-> change_percent,
        trend_direction |-> TrendDirection(change_percent)]

RECURSIVE CalculateLoop(_, _)
CalculateLoop(current_counts, previous_counts) ==
    IF current_counts = <<>> THEN <<>>
    ELSE LET data == Head(current_counts)
         IN <<BirdTrendRow(data, PreviousCount(previous_counts, data.species_code))>>
                \o CalculateLoop(Tail(current_counts), previous_counts)

\* the rows of a run taking the place of the rows stored before
calculate_trends_replacing(table, current_rows, previous_counts) ==
    CalculateLoop(BuildCurrentCounts(current_rows, <<>>), previous_counts)

calculate_trends(table, current_rows, previous_counts) ==
    table \o CalculateLoop(BuildCurrentCounts(current_rows, <<>>), previous_counts)

\* --------------------------------------------- what the providers serve
Aux(code) == [fieldName |-> "breeding_code", auxCode |-> code]

ChecklistObs(sp, n, aux) == [speciesCode |-> sp, howManyStr |-> n, obsAux |-> aux]

Checklists ==
    { [obsDt |-> 1, locId |-> "L1", subnational1Code |-> "",
       obs |-> <<ChecklistObs("amerob", "1", <<Aux("S")>>)>>],
      [obsDt |-> 1, locId |-> "L1", subnational1Code |-> "",
       obs |-> <<ChecklistObs("amerob", "X", <<Aux("C")>>),
                 ChecklistObs("norcar", "1", <<Aux("NY")>>)>>],
      [obsDt |-> 2, locId |-> "L2", subnational1Code |-> "US-CA",
       obs |-> <<ChecklistObs("norcar", "2", <<Aux("D")>>)>>] }

EbirdRecords ==
    { [speciesCode |-> "amerob", comName |-> "American Robin", obsDt |-> 1,
       locId |-> "L1", howMany |-> "2", hasMedia |-> FALSE, obsValid |-> TRUE],
      [speciesCode |-> "amerob", comName |-> "American Robin", obsDt |-> 1,
       locId |-> "L1", howMany |-> "3", hasMedia |-> TRUE, obsValid |-> FALSE],
      [speciesCode |-> "norcar", comName |-> "Northern Cardinal", obsDt |-> 2,
       locId |-> "L2", howMany |-> "1", hasMedia |-> FALSE, obsValid |-> FALSE] }

INatRecords ==
    { [id |-> "7", taxon |-> <<"Turdus migratorius">>, observed_on |-> 1, sounds |-> 1],
      [id |-> "8", taxon |-> <<"Cardinalis cardinalis">>, observed_on |-> 2, sounds |-> 2] }

AudioRecords ==
    { [id |-> "7", category_class |-> "Aves", name |-> "Turdus migratorius",
       date |-> 1, latitude |-> <<340>>, longitude |-> <<-1180>>],
      [id |-> "8", category_class |-> "Aves", name |-> "Cardinalis cardinalis",
       date |-> 2, latitude |-> <<420>>, longitude |-> <<-1200>>] }

\* the scopes of the passes: the first default region and place
ScopeRegions == {DEFAULT_REGIONS[1]}
ScopePlaces == {DEFAULT_PLACE_IDS[1]}

\* ---------------------------------------------------------------- passes
\* no trend computation in progress, `runs` of them begun so far
IdleTrendRun(runs) ==
    [name |-> "none", pc |-> "idle", region_code |-> "", days |-> 0, now |-> 0,
     current |-> <<>>, previous |-> <<>>, runs |-> runs]

Init ==
    /\ store = <<>>
    /\ clock = 0
    /\ path = "none"
    /\ batch = <<>>
    /\ saved = 0
    /\ skipped = 0
    /\ store0 = <<>>
    /\ path0 = "none"
    /\ batch0 = <<>>
    /\ op = "none"
    /\ q_current = <<>>
    /\ q_previous = <<>>
    /\ min_observations = 0
    /\ limit = 0
    /\ trends = <<>>
    /\ bird_trends = <<>>
    /\ q_scope = [region_code |-> "", days |-> 0, now |-> 0]
    /\ coords = [called |-> FALSE, lat |-> <<>>, lon |-> <<>>, region |-> ""]
    /\ run = [adapter |-> "none", status |-> "idle", scopes |-> <<>>, all_data |-> <<>>]
    /\ calls = <<>>
    /\ combined = [pc |-> "idle", source |-> "all", stats_only |-> FALSE, key |-> FALSE,
                   ebird_success |-> TRUE, inat_success |-> TRUE,
                   stats_before |-> <<>>, stats_after |-> <<>>, report |-> ""]
    /\ trend_run = IdleTrendRun(0)
    /\ sessions = <<>>
    /\ paged = [called |-> FALSE, total_results |-> 0, max_results |-> 0,
                observations |-> <<>>]

\* the save is called only for a non-empty candidate list
Pass(name, observations, result) ==
    /\ clock' = clock + 1
    /\ path' = name
    /\ batch' = observations
    /\ store0' = store
    /\ path0' = path
    /\ batch0' = batch
    /\ UNCHANGED trendVars
    /\ UNCHANGED laterVars
    /\ IF observations # <<>>
       THEN /\ store' = result.db
            /\ saved' = result.saved
            /\ skipped' = result.skipped
       ELSE /\ store' = store
            /\ saved' = 0
            /\ skipped' = 0

\* one iteration of the region loop of fetch_singing_data.main, for the
\* regions and the checklists given
SingingPassOf(regions, listings) ==
    \E region_code \in regions, checklists \in listings :
        LET now == NowOf(clock)
            singing_obs == fetch_region_singing_data(checklists, region_code, now)
        IN Pass("ebird_singing", singing_obs,
                save_singing_observations(store, singing_obs, now))

SingingPassOn(regions, samples) == SingingPassOf(regions, SeqsUpTo(samples, MaxBatch))

SingingPass ==
    /\ clock < MaxPasses
    /\ SingingPassOn(ScopeRegions, Checklists)

\* one iteration of the region loop of fetch_ebird_data.main, for the
\* regions and the records given
EbirdPassOf(regions, lists) ==
    \E region_code \in regions, obs_data_list \in lists :
        LET now == NowOf(clock)
            observations == ProcessEbird(obs_data_list, region_code, now)
        IN Pass("ebird", observations, ebird_save_observations(store, observations))

EbirdPassOn(regions, records) == EbirdPassOf(regions, SeqsUpTo(records, MaxBatch))

EbirdPass ==
    /\ clock < MaxPasses
    /\ EbirdPassOn(ScopeRegions, EbirdRecords)

\* one iteration of the place loop of fetch_inaturalist_data.main, for the
\* places and the records given
INatPassOn(places, samples) ==
    \E place_id \in places, raw \in SeqsUpTo(samples, MaxBatch) :
        LET now == NowOf(clock)
            observations == fetch_region_data(raw, PLACE_ID_TO_REGION[place_id], now)
        IN Pass("inaturalist", observations,
                save_inaturalist_observations(store, observations, now))

INatPass ==
    /\ clock < MaxPasses
    /\ INatPassOn(ScopePlaces, INatRecords)

\* one iteration of the split loop of fetch_inatsounds_data.main, for the
\* audio records given
SoundsPassOn(samples) ==
    \E audio_records \in SeqsUpTo(samples, MaxBatch) :
        LET now == NowOf(clock)
            observations == us_birds(filter_bird_observations(audio_records))
        IN Pass("inatsounds", observations,
                sounds_save_observations(store, observations, now))

SoundsPass ==
    /\ clock < MaxPasses
    /\ SoundsPassOn(AudioRecords)

Next == SingingPass \/ EbirdPass \/ INatPass \/ SoundsPass

Spec == Init /\ [][Next]_vars

\* -------------------------------------- passes on irregular records
\* What a provider may also serve: a record without a date (0), without a
\* species code or taxon name (""), without coordinates, of a region other
\* than the one asked for, of a class other than Aves.
OddChecklists ==
    { [obsDt |-> 0, locId |-> "L3", subnational1Code |-> "",
       obs |-> <<ChecklistObs("amerob", "1", <<Aux("S")>>)>>],
      [obsDt |-> 1, locId |-> "L4", subnational1Code |-> "",
       obs |-> <<ChecklistObs("", "1", <<Aux("S")>>)>>],
      [obsDt |-> 2, locId |-> "L5", subnational1Code |-> "US-NV",
       obs |-> <<ChecklistObs("norcar", "1", <<Aux("D")>>)>>] }

OddEbirdRecords ==
    { [speciesCode |-> "amerob", comName |-> "American Robin", obsDt |-> 0,
       locId |-> "L3", howMany |-> "1", hasMedia |-> FALSE, obsValid |-> TRUE],
      [speciesCode |-> "", comName |-> "", obsDt |-> 1,
       locId |-> "L4", howMany |-> "1", hasMedia |-> TRUE, obsValid |-> TRUE] }

OddINatRecords ==
    { [id |-> "9", taxon |-> <<"Turdus migratorius">>, observed_on |-> 0, sounds |-> 1],
      [id |-> "10", taxon |-> <<"">>, observed_on |-> 1, sounds |-> 1],
      [id |-> "11", taxon |-> <<>>, observed_on |-> 2, sounds |-> 1] }

OddAudioRecords ==
    { [id |-> "9", category_class |-> "Aves", name |-> "Turdus migratorius",
       date |-> 0, latitude |-> <<340>>, longitude |-> <<-1180>>],
      [id |-> "10", category_class |-> "Aves", name |-> "",
       date |-> 1, latitude |-> <<430>>, longitude |-> <<-750>>],
      [id |-> "11", category_class |-> "Aves", name |-> "Cardinalis cardinalis",
       date |-> 2, latitude |-> <<>>, longitude |-> <<-750>>],
      [id |-> "12", category_class |-> "Aves", name |-> "Cardinalis cardinalis",
       date |-> 2, latitude |-> <<200>>, longitude |-> <<-1000>>],
      [id |-> "13", category_class |-> "Insecta", name |-> "Gryllus rubens",
       date |-> 2, latitude |-> <<300>>, longitude |-> <<-850>>] }

RawSingingPass ==
    /\ clock < MaxPasses
    /\ SingingPassOn(ScopeRegions, OddChecklists)

RawEbirdPass ==
    /\ clock < MaxPasses
    /\ EbirdPassOn(ScopeRegions, OddEbirdRecords)

RawINatPass ==
    /\ clock < MaxPasses
    /\ INatPassOn(ScopePlaces, OddINatRecords)

RawSoundsPass ==
    /\ clock < MaxPasses
    /\ SoundsPassOn(OddAudioRecords \cup AudioRecords)

RawNext == RawSingingPass \/ RawEbirdPass \/ RawINatPass \/ RawSoundsPass

SpecRaw == Init /\ [][RawNext]_vars

\* ------------------------------------------ executions of main()
\* One execution of an adapter's main(): run.scopes has one entry per
\* iteration of its loop done so far, calls the remote calls and the
\* sleeps in order.  A remote call may fail; a commit may fail.
Adapters == {"ebird_singing", "ebird", "inaturalist", "inatsounds"}

Call(kind, k) == [kind |-> kind, scope |-> k]

StartRun ==
    /\ run.status = "idle"
    /\ \E a \in Adapters :
        run' = [adapter |-> a, scopes |-> <<>>, all_data |-> <<>>,
                status |-> IF a = "inatsounds" THEN "downloading" ELSE "running"]
    /\ UNCHANGED ingestVars
    /\ UNCHANGED trendVars
    /\ UNCHANGED <<paged, q_scope, coords, calls, combined, trend_run, sessions>>

\* the end of one iteration of the loop over scopes: the exception of a
\* failed commit leaves the loop, the n-th scope is the last
ScopeStatus(raised, k, n) ==
    IF raised THEN "raised" ELSE IF k >= n THEN "done" ELSE "running"

ScopeDone(outcome, result, events, n) ==
    /\ store' = result.db
    /\ store0' = store
    /\ run' = [run EXCEPT !.scopes = Append(@, outcome),
                          !.all_data = IF @ = <<>> THEN @ ELSE Tail(@),
                          !.status = ScopeStatus(result.raised, Len(run.scopes) + 1, n)]
    /\ calls' = calls \o events
    /\ UNCHANGED <<clock, path, batch, saved, skipped, path0, batch0>>
    /\ UNCHANGED trendVars
    /\ UNCHANGED <<paged, q_scope, coords, combined, trend_run, sessions>>

\* main() calls the save only for a scope with candidates
SavedOrNot(observations, saved_session) ==
    IF observations # <<>> THEN saved_session ELSE NewSession(store)

\* --- checklist 'singing' path
\* get_checklist_details returns None (<<>>) when its call fails, else the
\* checklist (<<c>>)
DetailResponses == {<<>>} \cup {<<c>> : c \in {x \in Checklists : x.locId = "L1"}}

\* the loop of fetch_region_singing_data stopped by a failed call
RECURSIVE OkDetailsUntilFailure(_)
OkDetailsUntilFailure(details) ==
    IF details = <<>> \/ Head(details) = <<>> THEN <<>>
    ELSE Head(details) \o OkDetailsUntilFailure(Tail(details))

\* the checklists the loop of fetch_region_singing_data extracts from:
\* `if not checklist: continue`
RECURSIVE OkDetails(_)
OkDetails(details) ==
    IF details = <<>> THEN <<>>
    ELSE Head(details) \o OkDetails(Tail(details))

\* the calls and sleeps of that loop: no sleep after a failed call
RECURSIVE DetailCalls(_, _)
DetailCalls(details, k) ==
    IF details = <<>> THEN <<>>
    ELSE (IF Head(details) = <<>> THEN <<Call("detail", k)>>
          ELSE <<Call("detail", k), Call("sleep", k)>>)
         \o DetailCalls(Tail(details), k)

\* get_recent_checklists returns [] when its call fails
SingingInputs ==
    {[list_ok |-> FALSE, details |-> <<>>]}
    \cup {[list_ok |-> TRUE, details |-> d] : d \in SeqsUpTo(DetailResponses, MaxDetails)}

\* one iteration of the region loop of fetch_singing_data.main
SingingScope ==
    /\ run.adapter = "ebird_singing"
    /\ run.status = "running"
    /\ \E inp \in SingingInputs, fail_at \in {0, 1} :
        LET k == Len(run.scopes) + 1
            now == NowOf(clock)
            checklists == IF inp.list_ok THEN OkDetails(inp.details) ELSE <<>>
            singing_obs == fetch_region_singing_data(checklists, DEFAULT_REGIONS[k], now)
            result == SavedOrNot(singing_obs,
                          Commit(SingingLoop(FailingSession(store, fail_at),
                                             singing_obs, now)))
            events == <<Call("list", k)>> \o DetailCalls(inp.details, k)
                      \o (IF singing_obs # <<>> THEN <<Call("taxonomy", k)>> ELSE <<>>)
                      \o (IF result.raised THEN <<>> ELSE <<Call("sleep", k)>>)
        IN /\ (singing_obs = <<>> => fail_at = 0)
           /\ ScopeDone([scope |-> DEFAULT_REGIONS[k], failed |-> ~inp.list_ok,
                         input |-> inp.details, fetched |-> Len(singing_obs),
                         commit_failed |-> result.raised],
                        result, events, MaxScopes)

\* --- generic checklist path
\* fetch_region_observations returns [] when its call fails
EbirdInputs ==
    {[call_ok |-> FALSE, obs_data_list |-> <<>>]}
    \cup {[call_ok |-> TRUE, obs_data_list |-> d] :
            d \in SeqsUpTo({x \in EbirdRecords : x.locId = "L1"}, MaxDetails)}

\* one iteration of the region loop of fetch_ebird_data.main: `continue`
\* when nothing was fetched, before the sleep
EbirdScope ==
    /\ run.adapter = "ebird"
    /\ run.status = "running"
    /\ \E inp \in EbirdInputs, fail_at \in {0, 1} :
        LET k == Len(run.scopes) + 1
            now == NowOf(clock)
            observations == ProcessEbird(inp.obs_data_list, DEFAULT_REGIONS[k], now)
            result == SavedOrNot(observations,
                          Commit(EbirdLoop(FailingSession(store, fail_at), observations)))
            events == <<Call("observations", k)>>
                      \o (IF inp.obs_data_list = <<>> \/ result.raised THEN <<>>
                          ELSE <<Call("sleep", k)>>)
        IN /\ (observations = <<>> => fail_at = 0)
           /\ ScopeDone([scope |-> DEFAULT_REGIONS[k], failed |-> ~inp.call_ok,
                         input |-> inp.obs_data_list, fetched |-> Len(observations),
                         commit_failed |-> result.raised],
                        result, events, MaxScopes)

\* --- crowd-sourced path
MAX_OBSERVATIONS_PER_REGION == 500

\* a response of get_observations: <<>> when the call raises, else
\* <<results>>; the provider answers a page it was not asked to have
\* with no results
PageResponses ==
    {<<>>} \cup {<<results>> :
                    results \in {<<>>} \cup {<<x>> : x \in INatRecords}}

PageAt(pages, page) == IF page <= Len(pages) THEN pages[page] ELSE << <<>> >>

\* the while loop of fetch_bird_audio_observations from the call of `page`
\* on: [observations, events, failed]
RECURSIVE PageLoop(_, _, _, _, _, _)
PageLoop(pages, page, observations, total_results, events, k) ==
    IF Len(observations) < MAX_OBSERVATIONS_PER_REGION /\ Len(observations) < total_results
    THEN LET page_response == PageAt(pages, page)
             called == events \o <<Call("sleep", k), Call("page", k)>>
         IN IF page_response = <<>>
            THEN [observations |-> <<>>, events |-> called, failed |-> TRUE]
            ELSE IF page_response[1] = <<>>
            THEN [observations |-> observations, events |-> called, failed |-> FALSE]
            ELSE PageLoop(pages, page + 1, observations \o page_response[1],
                          total_results, called, k)
    ELSE [observations |-> observations, events |-> events, failed |-> FALSE]

\* fetch_bird_audio_observations with max_results = 500 (> 200: it
\* paginates); any exception makes it return []
fetch_bird_audio_observations(pages, total_results, k) ==
    LET response == PageAt(pages, 1)
    IN IF response = <<>>
       THEN [observations |-> <<>>, events |-> <<Call("page", k)>>, failed |-> TRUE]
       ELSE PageLoop(pages, 2, response[1], total_results, <<Call("page", k)>>, k)

\* the responses to the calls of one place, of which the first tells the
\* total_results of the query
INatInputs ==
    {[pages |-> pages, total_results |-> n] :
        pages \in SeqsUpTo(PageResponses, MaxDetails) \ {<<>>}, n \in 0..MaxDetails}

PageCalls(events) == Cardinality({i \in 1..Len(events) : events[i].kind = "page"})

\* one iteration of the place loop of fetch_inaturalist_data.main
INatScope ==
    /\ run.adapter = "inaturalist"
    /\ run.status = "running"
    /\ \E inp \in INatInputs, fail_at \in {0, 1} :
        LET k == Len(run.scopes) + 1
            now == NowOf(clock)
            region_code == PLACE_ID_TO_REGION[DEFAULT_PLACE_IDS[k]]
            fetched == fetch_bird_audio_observations(inp.pages, inp.total_results, k)
            observations == fetch_region_data(fetched.observations, region_code, now)
            result == SavedOrNot(observations,
                          Commit(INatLoop(FailingSession(store, fail_at), observations, now)))
            events == fetched.events
                      \o (IF result.raised THEN <<>> ELSE <<Call("sleep", k)>>)
        IN /\ Len(inp.pages) = PageCalls(fetched.events)
           /\ (observations = <<>> => fail_at = 0)
           /\ ScopeDone([scope |-> region_code, failed |-> fetched.failed,
                         input |-> inp.pages, fetched |-> Len(observations),
                         commit_failed |-> result.raised],
                        result, events, MaxScopes)

\* --- bulk-annotation path
ANNOTATION_URLS == <<"train", "val", "test">>

\* a split of more records than one batch of commits
BigSplit ==
    [k \in 1..(CommitEvery + 1) |->
        [id |-> ToString(k), category_class |-> "Aves", name |-> "Turdus migratorius",
         date |-> 1, latitude |-> <<340>>, longitude |-> <<-1180>>]]

\* what the download of a split gives: <<>> when download_file or the
\* extraction fails, else <<audio records>>
SmallSplitResponses == {<<>>} \cup {<<audio>> : audio \in SeqsUpTo(AudioRecords, 1)}

SplitResponses == SmallSplitResponses \cup {<<BigSplit>>}

\* download_annotations: the splits that failed are left out of all_data
SoundsDownloadOn(Responses) ==
    /\ run.adapter = "inatsounds"
    /\ run.status = "downloading"
    /\ \E responses \in [1..MaxScopes -> Responses] :
        LET ok == {k \in 1..MaxScopes : responses[k] # <<>>}
            Nth(S, n) == CHOOSE x \in S : Cardinality({y \in S : y < x}) = n - 1
            all_data == [n \in 1..Cardinality(ok) |->
                            [split |-> ANNOTATION_URLS[Nth(ok, n)],
                             audio |-> responses[Nth(ok, n)][1]]]
            failures == [n \in 1..(MaxScopes - Cardinality(ok)) |->
                            [scope |-> ANNOTATION_URLS[Nth((1..MaxScopes) \ ok, n)],
                             failed |-> TRUE, input |-> <<>>, fetched |-> 0,
                             commit_failed |-> FALSE]]
        IN /\ run' = [run EXCEPT !.all_data = all_data, !.scopes = failures,
                                 !.status = IF all_data = <<>> THEN "done" ELSE "running"]
           /\ calls' = [k \in 1..MaxScopes |-> Call("download", k)]
    /\ UNCHANGED ingestVars
    /\ UNCHANGED trendVars
    /\ UNCHANGED <<paged, q_scope, coords, combined, trend_run, sessions>>

SoundsDownload == SoundsDownloadOn(SplitResponses)

\* audio_id = audio['id']: a record without the key raises KeyError, which
\* nothing in filter_bird_observations catches
AudioRaises(audio) == "id" \notin DOMAIN audio

FilterRaises(audio_records) ==
    \E i \in DOMAIN audio_records : AudioRaises(audio_records[i])

\* one iteration of the loop of fetch_inatsounds_data.main over all_data;
\* an exception of filter_bird_observations leaves the loop as that of a
\* failed commit does: main() rolls back and raises again
SoundsScope ==
    /\ run.adapter = "inatsounds"
    /\ run.status = "running"
    /\ LET data == Head(run.all_data)
           now == NowOf(clock)
           raises == FilterRaises(data.audio)
           observations == IF raises THEN <<>>
                           ELSE us_birds(filter_bird_observations(data.audio))
           commits == IF observations = <<>> THEN 0
                      ELSE sounds_save_observations(store, observations, now).commits
       IN \E fail_at \in 0..commits :
           LET result == IF raises THEN [NewSession(store) EXCEPT !.raised = TRUE]
                         ELSE SavedOrNot(observations,
                                  Commit(SoundsLoop(FailingSession(store, fail_at),
                                                    observations, now)))
           IN ScopeDone([scope |-> data.split, failed |-> FALSE,
                         input |-> <<Len(data.audio)>>, fetched |-> Len(observations),
                         commit_failed |-> result.raised /\ ~raises],
                        result, <<>>, MaxScopes)

RunNext == StartRun \/ SingingScope \/ EbirdScope \/ INatScope \/ SoundsDownload \/ SoundsScope

SpecRun == Init /\ [][RunNext]_vars

\* ------------------------------ executions on splits with odd records
\* an audio record of the annotation file that has no 'id'
NoIdAudioRecords ==
    { [category_class |-> "Aves", name |-> "Cardinalis cardinalis",
       date |-> 2, latitude |-> <<420>>, longitude |-> <<-1200>>] }

MalformedSplitResponses ==
    {<<>>} \cup {<<audio>> : audio \in SeqsUpTo(AudioRecords \cup NoIdAudioRecords, MaxBatch)}

MalformedDownload == SoundsDownloadOn(MalformedSplitResponses)

MalformedNext ==
    StartRun \/ SingingScope \/ EbirdScope \/ INatScope \/ MalformedDownload \/ SoundsScope

SpecMalformed == Init /\ [][MalformedNext]_vars

\* --------------------------------------- the fetch on a paging service
\* per_page=min(max_results, 200): the most the API gives per page
PER_PAGE_MAX == 200

\* The service holds the result list 0 .. total_results - 1 of the query
\* and serves page p of size s as its items (p-1)*s .. p*s - 1.
ServePage(total_results, page, per_page) ==
    LET first == (page - 1) * per_page
        last == Min({page * per_page, total_results}) - 1
    IN [i \in 1..(IF last >= first THEN last - first + 1 ELSE 0) |-> first + i - 1]

\* per_page=min(200, max_results - total_fetched)
RequestedPerPage(max_results, total_fetched) ==
    Min({PER_PAGE_MAX, max_results - total_fetched})

\* the while loop of fetch_bird_audio_observations with the service called
RECURSIVE PagedLoop(_, _, _, _)
PagedLoop(total_results, max_results, page, observations) ==
    IF Len(observations) < max_results /\ Len(observations) < total_results
    THEN LET page_results == ServePage(total_results, page,
                                 RequestedPerPage(max_results, Len(observations)))
         IN IF page_results = <<>> THEN observations
            ELSE PagedLoop(total_results, max_results, page + 1,
                           observations \o page_results)
    ELSE observations

\* fetch_bird_audio_observations(place_id, max_results) on that service
PagedFetch(total_results, max_results) ==
    LET observations == ServePage(total_results, 1, Min({max_results, PER_PAGE_MAX}))
    IN IF max_results > PER_PAGE_MAX
       THEN PagedLoop(total_results, max_results, 2, observations)
       ELSE observations

PagedTotals == {50 * k : k \in 0..MaxFifties}

\* max_results > 200, the default MAX_OBSERVATIONS_PER_REGION among them
PagedMaxResults == {50 * k : k \in 5..MaxFifties}

FetchPaged ==
    /\ ~paged.called
    /\ \E total_results \in PagedTotals, max_results \in PagedMaxResults :
        paged' = [called |-> TRUE, total_results |-> total_results,
                  max_results |-> max_results,
                  observations |-> PagedFetch(total_results, max_results)]
    /\ UNCHANGED ingestVars
    /\ UNCHANGED trendVars
    /\ UNCHANGED <<q_scope, coords, run, calls, combined, trend_run, sessions>>

SpecPaged == Init /\ [][FetchPaged]_vars

\* ----------------------------------------------- the combined fetch
\* One execution of fetch_all_data.main(): combined.pc is its position,
\* run the adapter main() it is in.
Sources == {"all", "ebird", "inaturalist", "inatsounds"}

IdleRun == [adapter |-> "none", status |-> "idle", scopes |-> <<>>, all_data |-> <<>>]

get_database_stats(rows) ==
    LET n == 1..Len(rows)
    IN [total |-> Len(rows),
        ebird |-> Cardinality({i \in n : rows[i].source \in {"ebird", "ebird_singing"}}),
        inaturalist |-> Cardinality({i \in n : rows[i].source \in {"inaturalist", "inatsounds"}}),
        vocal |-> Cardinality({i \in n : rows[i].is_vocal = 1})]

\* run_ebird_fetch and run_inatsounds_fetch return True counted as success
FetchAlwaysSucceeds(status) == TRUE

\* run_*_fetch: True when main() returned, False when it raised
FetchSucceeded(status) == status = "done"

AllUnchanged ==
    /\ UNCHANGED ingestVars
    /\ UNCHANGED trendVars
    /\ UNCHANGED <<paged, q_scope, coords, trend_run, sessions>>

\* the arguments, the environment, and the statistics before
AllStart ==
    /\ combined.pc = "idle"
    /\ run.status = "idle"
    /\ \E source \in Sources, stats_only \in BOOLEAN, key \in BOOLEAN :
        combined' = [combined EXCEPT !.source = source, !.stats_only = stats_only,
                                     !.key = key,
                                     !.stats_before = <<get_database_stats(store)>>,
                                     !.pc = IF stats_only THEN "returned" ELSE "ebird"]
    /\ UNCHANGED <<run, calls>>
    /\ AllUnchanged

\* `if args.source in ['all', 'ebird']` is false
AllSkipEbird ==
    /\ combined.pc = "ebird"
    /\ combined.source \notin {"all", "ebird"}
    /\ combined' = [combined EXCEPT !.pc = "inat"]
    /\ UNCHANGED <<run, calls>>
    /\ AllUnchanged

\* run_ebird_fetch: the import of fetch_singing_data raises ValueError
\* without EBIRD_API_KEY, inside the try
AllEbirdImportFails ==
    /\ combined.pc = "ebird"
    /\ combined.source \in {"all", "ebird"}
    /\ ~combined.key
    /\ combined' = [combined EXCEPT !.ebird_success = FetchSucceeded("raised"),
                                     !.pc = "inat"]
    /\ UNCHANGED <<run, calls>>
    /\ AllUnchanged

\* run_ebird_fetch: ebird_main() is called
AllEbirdStart ==
    /\ combined.pc = "ebird"
    /\ combined.source \in {"all", "ebird"}
    /\ combined.key
    /\ combined' = [combined EXCEPT !.pc = "ebird_running"]
    /\ run' = [IdleRun EXCEPT !.adapter = "ebird_singing", !.status = "running"]
    /\ UNCHANGED calls
    /\ AllUnchanged

\* run_ebird_fetch: ebird_main() returned or raised
AllEbirdReturn ==
    /\ combined.pc = "ebird_running"
    /\ run.status \in {"done", "raised"}
    /\ combined' = [combined EXCEPT !.ebird_success = FetchSucceeded(run.status),
                                     !.pc = "inat"]
    /\ run' = IdleRun
    /\ calls' = <<>>
    /\ AllUnchanged

\* `if args.source in ['all', 'inaturalist', 'inatsounds']` is false
AllSkipInat ==
    /\ combined.pc = "inat"
    /\ combined.source \notin {"all", "inaturalist", "inatsounds"}
    /\ combined' = [combined EXCEPT !.pc = "report"]
    /\ UNCHANGED <<run, calls>>
    /\ AllUnchanged

\* run_inatsounds_fetch: inatsounds_main() is called
AllInatStart ==
    /\ combined.pc = "inat"
    /\ combined.source \in {"all", "inaturalist", "inatsounds"}
    /\ combined' = [combined EXCEPT !.pc = "inat_running"]
    /\ run' = [IdleRun EXCEPT !.adapter = "inatsounds", !.status = "downloading"]
    /\ UNCHANGED calls
    /\ AllUnchanged

AllSoundsDownload == SoundsDownloadOn(SmallSplitResponses)

\* run_inatsounds_fetch: inatsounds_main() returned or raised
AllInatReturn ==
    /\ combined.pc = "inat_running"
    /\ run.status \in {"done", "raised"}
    /\ combined' = [combined EXCEPT !.inat_success = FetchSucceeded(run.status),
                                     !.pc = "report"]
    /\ run' = IdleRun
    /\ calls' = <<>>
    /\ AllUnchanged

\* the statistics after and the closing line
AllReport ==
    /\ combined.pc = "report"
    /\ combined' = [combined EXCEPT
                        !.stats_after = <<get_database_stats(store)>>,
                        !.report = IF combined.ebird_success /\ combined.inat_success
                                   THEN "All fetches completed successfully!"
                                   ELSE "Some fetches had issues",
                        !.pc = "returned"]
    /\ UNCHANGED <<run, calls>>
    /\ AllUnchanged

AllNext ==
    \/ AllStart
    \/ AllSkipEbird
    \/ AllEbirdImportFails
    \/ AllEbirdStart
    \/ SingingScope
    \/ AllEbirdReturn
    \/ AllSkipInat
    \/ AllInatStart
    \/ AllSoundsDownload
    \/ SoundsScope
    \/ AllInatReturn
    \/ AllReport

SpecAll == Init /\ [][AllNext]_vars

\* ------------------------------------------------- trend computations
\* the results of the two grouped queries: a current-window group has a
\* count of at least 1, a species without previous-window rows has no key
TrendSpecies == {"amerob", "norcar", "houfin"}

RECURSIVE DistinctSeqs(_)
DistinctSeqs(S) ==
    {<<>>} \cup UNION {{<<x>> \o t : t \in DistinctSeqs(S \ {x})} : x \in S}

PreviousDict(f) ==
    LET keys == {sp \in DOMAIN f : f[sp] > 0} IN [sp \in keys |-> f[sp]]

GroupRow(sp, n) == [species_code |-> sp, common_name |-> ComNameOf(sp), count |-> n]

\* one species seen once in the current window and 40000 times in the
\* previous one
DeepQueries ==
    {[current |-> <<GroupRow("amerob", 1)>>,
      previous |-> PreviousDict([sp \in {"amerob"} |-> 40000])]}

\* one species, counts up to MaxCount
WideQueries ==
    {[current |-> <<GroupRow("amerob", c)>>,
      previous |-> PreviousDict([sp \in {"amerob"} |-> p])] :
        c \in 1..MaxCount, p \in 0..MaxCount} \cup DeepQueries

\* several species in any order, counts up to LowCount
LowQueries ==
    UNION {{[current |-> [k \in 1..Len(q) |-> GroupRow(q[k], cs[k])],
             previous |-> PreviousDict(f)] :
               cs \in [1..Len(q) -> 1..LowCount],
               f \in [TrendSpecies -> 0..LowCount]} :
           q \in DistinctSeqs(TrendSpecies)}

TrendCall(name, q) ==
    /\ op' = name
    /\ q_current' = q.current
    /\ q_previous' = q.previous
    /\ UNCHANGED ingestVars
    /\ UNCHANGED laterVars

GetBirdTrends ==
    /\ op = "none"
    /\ \/ \E q \in WideQueries, m \in 0..MaxMin, l \in -1..MaxLimit :
          /\ TrendCall("get_bird_trends", q)
          /\ min_observations' = m
          /\ limit' = l
          /\ trends' = get_bird_trends(q.current, q.previous, m, l)
          /\ UNCHANGED bird_trends
       \/ \E q \in LowQueries, m \in 1..LowCount, l \in 0..MaxLimit :
          /\ TrendCall("get_bird_trends", q)
          /\ min_observations' = m
          /\ limit' = l
          /\ trends' = get_bird_trends(q.current, q.previous, m, l)
          /\ UNCHANGED bird_trends

CalculateTrends ==
    /\ op = "none"
    /\ \E q \in WideQueries \cup LowQueries :
        /\ TrendCall("calculate_trends", q)
        /\ bird_trends' = calculate_trends(bird_trends, q.current, q.previous)
        /\ UNCHANGED <<min_observations, limit, trends>>

TrendNext == GetBirdTrends \/ CalculateTrends

SpecTrend == Init /\ [][TrendNext]_vars

\* ------------------------------------- trend computations on the table
\* The two grouped queries of get_bird_trends and calculate_trends, run on
\* the table.  region_code "" is None (no region filter).
QueryRegions == {"", DEFAULT_REGIONS[1], DEFAULT_REGIONS[2]}

\* window lengths that put the sample days on both sides of the bounds of
\* the two windows of a computation run at NowOf(1), NowOf(2), ...
QueryDays == {49, 50, 99, 100, 101}

\* the windows closed at their end
WindowRowsClosed(rows, start, end, approved_only, region_code) ==
    {i \in 1..Len(rows) :
        /\ rows[i].observation_date >= start
        /\ rows[i].observation_date <= end
        /\ approved_only => rows[i].approved = 1
        /\ region_code # "" => rows[i].region_code = region_code}

\* filter(observation_date >= start, observation_date < end[, approved == 1])
\* and the region filter added `if region_code`
WindowRows(rows, start, end, approved_only, region_code) ==
    {i \in 1..Len(rows) :
        /\ rows[i].observation_date >= start
        /\ rows[i].observation_date < end
        /\ approved_only => rows[i].approved = 1
        /\ region_code # "" => rows[i].region_code = region_code}

\* group_by(species_code, common_name) with count(id): the groups
CurrentGroups(rows, at) == {<<rows[i].species_code, rows[i].common_name>> : i \in at}

GroupCount(rows, at, g) ==
    Cardinality({i \in at : rows[i].species_code = g[1] /\ rows[i].common_name = g[2]})

\* .all() of the current-window query, for one order of its groups (the
\* query has no ORDER BY: any order of the groups is a result)
CurrentQueryRows(rows, at, order) ==
    [k \in 1..Len(order) |->
        [species_code |-> order[k][1], common_name |-> order[k][2],
         count |-> GroupCount(rows, at, order[k])]]

GroupOrders(rows, at) ==
    {o \in DistinctSeqs(CurrentGroups(rows, at)) :
        Len(o) = Cardinality(CurrentGroups(rows, at))}

\* {r.species_code: r.count for r in previous_query.group_by(species_code)}
PreviousQueryDict(rows, at) ==
    [sp \in {rows[i].species_code : i \in at} |->
        Cardinality({i \in at : rows[i].species_code = sp})]

\* what both computations do before their loop: the two windows and the
\* two queries; approved_only tells whether the queries filter on approved
TableQuery(name, region_code, days, approved_only, order) ==
    LET now == NowOf(clock)
        current_start == now - days
        previous_start == current_start - days
        cur == WindowRows(store, current_start, now, approved_only, region_code)
        prev == WindowRows(store, previous_start, current_start, approved_only, region_code)
    IN /\ order \in GroupOrders(store, cur)
       /\ op' = name
       /\ q_scope' = [region_code |-> region_code, days |-> days, now |-> now]
       /\ q_current' = CurrentQueryRows(store, cur, order)
       /\ q_previous' = PreviousQueryDict(store, prev)
       /\ UNCHANGED ingestVars
       /\ UNCHANGED <<paged, coords, run, calls, combined, trend_run, sessions>>

\* GET /api/birds/trends
TableGetBirdTrendsOn(regions, lengths) ==
    /\ op = "none"
    /\ \E region_code \in regions, days \in lengths,
          order \in DistinctSeqs({<<r.species_code, r.common_name>> :
                                    r \in {store[i] : i \in 1..Len(store)}}),
          m \in {0, 1} :
        /\ TableQuery("get_bird_trends", region_code, days, FALSE, order)
        /\ min_observations' = m
        /\ limit' = MaxLimit
        /\ trends' = get_bird_trends(q_current', q_previous', m, MaxLimit)
        /\ UNCHANGED bird_trends

TableGetBirdTrends == TableGetBirdTrendsOn(QueryRegions, QueryDays)

\* the standalone trend-calculation command
TableCalculateTrendsOn(regions, lengths) ==
    /\ op = "none"
    /\ \E region_code \in regions, days \in lengths,
          order \in DistinctSeqs({<<r.species_code, r.common_name>> :
                                    r \in {store[i] : i \in 1..Len(store)}}) :
        /\ TableQuery("calculate_trends", region_code, days, TRUE, order)
        /\ bird_trends' = calculate_trends(bird_trends, q_current', q_previous')
        /\ UNCHANGED <<min_observations, limit, trends>>

TableCalculateTrends == TableCalculateTrendsOn(QueryRegions, QueryDays)

\* the generic checklist path fills the table for two of its regions; it
\* is the path that stores rows with approved = 0
TableEbirdPass ==
    /\ clock < MaxPasses
    /\ op = "none"
    /\ EbirdPassOn({DEFAULT_REGIONS[1], DEFAULT_REGIONS[2]}, EbirdRecords)

TableNext == TableEbirdPass \/ TableGetBirdTrends \/ TableCalculateTrends

SpecTable == Init /\ [][TableNext]_vars

\* -------------------------- trend computations at the window bounds
\* Records dated at the bounds of the windows of a computation that runs
\* after the first pass, at NowOf(1), with a window of 50 days: its end
\* (101), the start of its current window (51), the start of its previous
\* window (1), and inside the current window (60, 61).
WindowRecords ==
    { [speciesCode |-> "amerob", comName |-> "American Robin", obsDt |-> 1,
       locId |-> "L1", howMany |-> "1", hasMedia |-> FALSE, obsValid |-> TRUE],
      [speciesCode |-> "amerob", comName |-> "American Robin", obsDt |-> 51,
       locId |-> "L2", howMany |-> "1", hasMedia |-> FALSE, obsValid |-> TRUE],
      [speciesCode |-> "amerob", comName |-> "American Robin", obsDt |-> 101,
       locId |-> "L3", howMany |-> "1", hasMedia |-> FALSE, obsValid |-> TRUE],
      [speciesCode |-> "norcar", comName |-> "Northern Cardinal", obsDt |-> 60,
       locId |-> "L4", howMany |-> "1", hasMedia |-> FALSE, obsValid |-> TRUE] }

\* a checklist with a species get_taxonomy does not name
WindowChecklists ==
    { [obsDt |-> 61, locId |-> "L5", subnational1Code |-> "",
       obs |-> <<ChecklistObs("norcar", "1", <<Aux("S")>>)>>] }

WindowDays == {49, 50}

WindowEbirdPass ==
    /\ clock < MaxFills
    /\ op = "none"
    /\ EbirdPassOn(ScopeRegions, WindowRecords)

\* a 'singing' pass run after a generic pass
WindowSingingPass ==
    /\ clock <= MaxFills
    /\ op = "none"
    /\ path = "ebird"
    /\ SingingPassOf(ScopeRegions, {<<c>> : c \in WindowChecklists})

WindowGetBirdTrends == TableGetBirdTrendsOn(QueryRegions, WindowDays)

WindowCalculateTrends == TableCalculateTrendsOn(QueryRegions, WindowDays)

WindowNext ==
    \/ WindowEbirdPass
    \/ WindowSingingPass
    \/ WindowGetBirdTrends
    \/ WindowCalculateTrends

SpecWindow == Init /\ [][WindowNext]_vars

\* ----------------------- trend computations while ingestion passes run
\* A trend computation in steps: its current-window query, its
\* previous-window query, then its loop with the commit (calculate_trends)
\* or the return (get_bird_trends).  An ingestion pass of another process
\* may commit between any two of them.
\* window lengths that put the sample days in the current and in the
\* previous window
InterleavedDays == {50, 100}

TrendBegin(name, approved_only) ==
    /\ trend_run.pc = "idle"
    /\ trend_run.runs < MaxRuns
    /\ \E region_code \in {""}, days \in InterleavedDays :
        LET now == NowOf(clock)
            cur == WindowRows(store, now - days, now, approved_only, region_code)
        IN \E order \in GroupOrders(store, cur) :
            trend_run' = [name |-> name, pc |-> "current", region_code |-> region_code,
                          days |-> days, now |-> now,
                          current |-> CurrentQueryRows(store, cur, order),
                          previous |-> <<>>, runs |-> trend_run.runs + 1]
    /\ UNCHANGED ingestVars
    /\ UNCHANGED trendVars
    /\ UNCHANGED <<paged, q_scope, coords, run, calls, combined, sessions>>

CalculateBegin == TrendBegin("calculate_trends", TRUE)

GetBegin == TrendBegin("get_bird_trends", FALSE)

\* the previous-window query reads the table as it is by then
TrendPreviousQuery ==
    /\ trend_run.pc = "current"
    /\ LET current_start == trend_run.now - trend_run.days
           prev == WindowRows(store, current_start - trend_run.days, current_start,
                              trend_run.name = "calculate_trends", trend_run.region_code)
       IN trend_run' = [trend_run EXCEPT !.pc = "previous",
                                         !.previous = PreviousQueryDict(store, prev)]
    /\ UNCHANGED ingestVars
    /\ UNCHANGED trendVars
    /\ UNCHANGED <<paged, q_scope, coords, run, calls, combined, sessions>>

\* the loop of calculate_trends: db.add(trend) for each species, db.commit()
CalculateCommit ==
    /\ trend_run.pc = "previous"
    /\ trend_run.name = "calculate_trends"
    /\ bird_trends' = calculate_trends(bird_trends, trend_run.current, trend_run.previous)
    /\ trend_run' = IdleTrendRun(trend_run.runs)
    /\ UNCHANGED ingestVars
    /\ UNCHANGED <<op, q_current, q_previous, min_observations, limit, trends>>
    /\ UNCHANGED <<paged, q_scope, coords, run, calls, combined, sessions>>

\* the loop of get_bird_trends, the sort and the return
GetReturn ==
    /\ trend_run.pc = "previous"
    /\ trend_run.name = "get_bird_trends"
    /\ \E m \in {0, 1} :
        /\ min_observations' = m
        /\ limit' = MaxLimit
        /\ trends' = get_bird_trends(trend_run.current, trend_run.previous, m, MaxLimit)
    /\ trend_run' = IdleTrendRun(trend_run.runs)
    /\ UNCHANGED ingestVars
    /\ UNCHANGED <<op, q_current, q_previous, bird_trends>>
    /\ UNCHANGED <<paged, q_scope, coords, run, calls, combined, sessions>>

\* an ingestion pass commits, whatever the position of the computation
InterleavedEbirdPass ==
    /\ clock < MaxPasses
    /\ EbirdPassOn(ScopeRegions, {x \in EbirdRecords : ~x.hasMedia})

InterleavedNext ==
    \/ CalculateBegin
    \/ GetBegin
    \/ TrendPreviousQuery
    \/ CalculateCommit
    \/ GetReturn
    \/ InterleavedEbirdPass

SpecInterleaved == Init /\ [][InterleavedNext]_vars

\* ------------------------------- ingestion passes at the same time
\* Each pass has its own session on the one table.  A query of a session
\* reads the table as committed by then, with the changes the session made
\* itself to rows it found (dirty: row number -> row); its commit writes
\* those changes and appends the rows it added.
ConcurrentAdapters == {"ebird_singing", "inatsounds"}

\* the candidate lists of a pass: the observations of one checklist, the
\* birds in the regions among up to MaxBatch audio records
ConcurrentInputs(adapter) ==
    IF adapter = "ebird_singing"
    THEN {fetch_region_singing_data(<<c>>, DEFAULT_REGIONS[1], NowOf(clock)) :
            c \in Checklists}
    ELSE {us_birds(filter_bird_observations(a)) : a \in SeqsUpTo(AudioRecords, MaxBatch)}
            \ {<<>>}

ViewOf(rows, dirty) ==
    [i \in 1..Len(rows) |-> IF i \in DOMAIN dirty THEN dirty[i] ELSE rows[i]]

\* a commit refused when a row it adds has the identity key of a stored row
SharedCommitUnique(rows, c) ==
    IF \E k \in 1..Len(c.s.pending) :
          FirstByKey(rows, c.s.pending[k].species_code, c.s.pending[k].location_id,
                     c.s.pending[k].observation_date) # 0
    THEN rows
    ELSE ViewOf(rows, c.dirty) \o c.s.pending

\* the commit of a session on the table as it is by then
SharedCommit(rows, c) == ViewOf(rows, c.dirty) \o c.s.pending

\* SessionLocal() and the candidates of a pass of the adapter the passes
\* of the behaviour share
SessionBegin ==
    /\ Len(sessions) < MaxSessions
    /\ \E adapter \in ConcurrentAdapters :
        /\ sessions # <<>> => adapter = sessions[1].adapter
        /\ \E observations \in ConcurrentInputs(adapter) :
            sessions' = Append(sessions,
                            [adapter |-> adapter, pc |-> "loop",
                             observations |-> observations, done |-> <<>>,
                             s |-> NewSession(<<>>), dirty |-> <<>>])
    /\ UNCHANGED ingestVars
    /\ UNCHANGED trendVars
    /\ UNCHANGED <<paged, q_scope, coords, run, calls, combined, trend_run>>

\* one iteration of the loop of the save of session n: the query, then the
\* add or the change in place (or the skip)
SessionStep ==
    /\ \E n \in 1..Len(sessions) :
        LET c == sessions[n]
            obs == Head(c.observations)
            view == ViewOf(store, c.dirty)
            before == [c.s EXCEPT !.db = view]
            after == IF c.adapter = "ebird_singing"
                     THEN SingingStep(before, obs, NowOf(clock))
                     ELSE SoundsStep(before, obs, NowOf(clock))
            changed == {i \in 1..Len(view) : after.db[i] # store[i]}
        IN /\ c.pc = "loop"
           /\ c.observations # <<>>
           /\ sessions' = [sessions EXCEPT ![n] =
                    [c EXCEPT !.observations = Tail(c.observations),
                              !.done = Append(c.done,
                                    [obs |-> obs, found |-> after.saved = c.s.saved]),
                              !.s = after,
                              !.dirty = [i \in changed |-> after.db[i]]]]
    /\ UNCHANGED ingestVars
    /\ UNCHANGED trendVars
    /\ UNCHANGED <<paged, q_scope, coords, run, calls, combined, trend_run>>

\* db_session.commit() at the end of the save of session n
SessionCommit ==
    /\ \E n \in 1..Len(sessions) :
        LET c == sessions[n]
        IN /\ c.pc = "loop"
           /\ c.observations = <<>>
           /\ store' = SharedCommit(store, c)
           /\ store0' = store
           /\ sessions' = [sessions EXCEPT ![n].pc = "committed"]
    /\ UNCHANGED <<clock, path, batch, saved, skipped, path0, batch0>>
    /\ UNCHANGED trendVars
    /\ UNCHANGED <<paged, q_scope, coords, run, calls, combined, trend_run>>

ConcurrentNext == SessionBegin \/ SessionStep \/ SessionCommit

SpecConcurrent == Init /\ [][ConcurrentNext]_vars

\* ------------------------------------------------ region assignment
\* the coordinates of a record: None, or a whole number of tenths of a
\* degree from CoordMargin below the lowest bound of the boxes to
\* CoordMargin above the highest (every bound of a box is a whole number
\* of tenths)
BoxIndexes == 1..Len(RegionBoxes)

Max(S) == CHOOSE x \in S : \A y \in S : x >= y

Latitudes ==
    (Min({RegionBoxes[i].min_lat : i \in BoxIndexes}) - CoordMargin) ..
    (Max({RegionBoxes[i].max_lat : i \in BoxIndexes}) + CoordMargin)

Longitudes ==
    (Min({RegionBoxes[i].min_lon : i \in BoxIndexes}) - CoordMargin) ..
    (Max({RegionBoxes[i].max_lon : i \in BoxIndexes}) + CoordMargin)

Optional(S) == {<<>>} \cup {<<x>> : x \in S}

\* one call of get_region_from_coords
GetRegionFromCoords ==
    /\ ~coords.called
    /\ \E lat \in Optional(Latitudes), lon \in Optional(Longitudes) :
        coords' = [called |-> TRUE, lat |-> lat, lon |-> lon,
                   region |-> get_region_from_coords(lat, lon)]
    /\ UNCHANGED ingestVars
    /\ UNCHANGED trendVars
    /\ UNCHANGED <<paged, q_scope, run, calls, combined, trend_run, sessions>>

SpecRegion == Init /\ [][GetRegionFromCoords]_vars

\* ------------------------------------------------------------ properties
KeyOf(r) == <<r.species_code, r.location_id, r.observation_date>>

ChecklistSources == {"ebird", "ebird_singing"}

\* a candidate list without the ingestion time of its candidates
ScopeOf(b) ==
    [k \in 1..Len(b) |->
        IF "fetched_at" \in DOMAIN b[k] THEN [b[k] EXCEPT !.fetched_at = 0] ELSE b[k]]

SameButVocal(r, q) == [r EXCEPT !.is_vocal = 0] = [q EXCEPT !.is_vocal = 0]

\* the rows of store0 a candidate of the last pass matches on its path's key
Matches(obs) ==
    IF path \in ChecklistSources
    THEN {i \in 1..Len(store0) : KeyOf(store0[i]) = KeyOf(obs)}
    ELSE {i \in 1..Len(store0) :
             store0[i].location_id = obs.location_id /\ store0[i].source = path}

Unmatched == {k \in 1..Len(batch) : Matches(batch[k]) = {}}

C2_NoDuplicateIdentity ==
    \A i, j \in 1..Len(store) :
        i # j =>
            IF store[i].source \in ChecklistSources
            THEN KeyOf(store[i]) # KeyOf(store[j])
            ELSE ~(store[i].location_id = store[j].location_id
                   /\ store[i].source = store[j].source)

\* C3: a row whose is_vocal is 1 keeps is_vocal = 1 through every pass.
C3_VocalMonotonic ==
    [][\A i \in 1..Len(store) :
          store[i].is_vocal = 1 => (i <= Len(store') /\ store'[i].is_vocal = 1)]_vars

\* a vocal row was matched by a candidate carrying no vocal evidence
C3_Witness ==
    /\ path = "ebird"
    /\ \E k \in 1..Len(batch) : \E i \in Matches(batch[k]) :
          /\ batch[k].is_vocal = 0
          /\ store0[i].is_vocal = 1
          /\ store[i].is_vocal = 1

\* C4: for a candidate whose key exists, save_singing_observations inserts
\* no row and changes nothing on the existing row but is_vocal, which
\* becomes 1 (the candidate is singing or courtship).
C4_SingingUpdatesOnlyVocal ==
    (path = "ebird_singing" /\ batch # <<>>) =>
        /\ Len(store) = Len(store0) + Cardinality(Unmatched)
        /\ \A i \in 1..Len(store0) :
              /\ SameButVocal(store[i], store0[i])
              /\ store[i].is_vocal =
                    IF \E k \in 1..Len(batch) :
                          /\ Matches(batch[k]) # {}
                          /\ i = Min(Matches(batch[k]))
                          /\ (batch[k].is_singing \/ batch[k].is_courtship)
                    THEN 1 ELSE store0[i].is_vocal

\* a row written by the generic path, not approved, got its flag raised
C4_Witness ==
    /\ path = "ebird_singing"
    /\ \E i \in 1..Len(store0) :
          /\ store0[i].source = "ebird"
          /\ store0[i].approved = 0
          /\ store0[i].is_vocal = 0
          /\ store[i].is_vocal = 1
          /\ \E k \in 1..Len(batch) :
                /\ i \in Matches(batch[k])
                /\ batch[k].how_many # store0[i].observation_count

\* C5: the generic checklist, crowd-sourced and bulk-annotation paths leave
\* the store unchanged for a candidate whose key exists: no insert, no
\* change of any field.
C5_OtherPathsSkip ==
    (path \in {"ebird", "inaturalist", "inatsounds"} /\ batch # <<>>) =>
        /\ Len(store) = Len(store0) + Cardinality(Unmatched)
        /\ \A i \in 1..Len(store0) : store[i] = store0[i]

C5_Witness ==
    /\ path = "ebird"
    /\ skipped > 0
    /\ \E k \in 1..Len(batch) : \E i \in Matches(batch[k]) :
          /\ batch[k].is_vocal = 1
          /\ batch[k].observation_count # store0[i].observation_count
          /\ store[i].is_vocal = 0

\* C6: every row the 'singing' path inserts has is_vocal = 1, for a
\* courtship code exactly as for a singing code.
C6_SingingRowsVocal ==
    \A i \in 1..Len(store) : store[i].source = "ebird_singing" => store[i].is_vocal = 1

TrendEntries == {trends[i] : i \in 1..Len(trends)}
BirdTrendRows == {bird_trends[i] : i \in 1..Len(bird_trends)}

\* x is exactly the value the formula gives for the two counts
IsChangeOf(x, c, p) ==
    IF p > 0 THEN x.n * p = (c - p) * 100 * x.d
    ELSE IF c > 0 THEN x.n = 100 * x.d
    ELSE x.n = 0

\* x is a multiple of 0.01 nearest to the value of the formula
IsRoundedChangeOf(x, c, p) ==
    /\ (x.n * 100) % x.d = 0
    /\ LET h == (x.n * 100) \div x.d
       IN IF p > 0 THEN 2 * Abs(h * p - (c - p) * 10000) <= p
          ELSE IF c > 0 THEN h = 10000
          ELSE h = 0

ExampleChanges(e) ==
    /\ (e.previous_count = 0 /\ e.current_count = 5) => e.change_percent = [n |-> 100, d |-> 1]
    /\ (e.previous_count = 10 /\ e.current_count = 10) => e.change_percent = [n |-> 0, d |-> 1]
    /\ (e.previous_count = 10 /\ e.current_count = 5) => e.change_percent = [n |-> -50, d |-> 1]

\* C7: change_percent is (current - previous) / previous * 100 when
\* previous > 0, 100.0 when previous = 0 and current > 0, 0.0 when both are
\* 0: exactly in the row calculate_trends stores, to 2 decimals in the entry
\* get_bird_trends returns; (0, 5) gives 100.0, (10, 10) 0.0, (10, 5) -50.0.
C7_ChangePercentFormula ==
    /\ \A r \in BirdTrendRows :
          /\ r.change_percent.d > 0
          /\ IsChangeOf(r.change_percent, r.current_count, r.previous_count)
          /\ ExampleChanges(r)
    /\ \A e \in TrendEntries :
          /\ e.change_percent.d > 0
          /\ IsRoundedChangeOf(e.change_percent, e.current_count, e.previous_count)
          /\ ExampleChanges(e)

C7_Witness ==
    /\ op = "get_bird_trends"
    /\ q_current = <<GroupRow("amerob", 5)>>
    /\ q_previous = [sp \in {"amerob"} |-> 10]
    /\ Len(trends) = 1
    /\ trends[1].change_percent = [n |-> -50, d |-> 1]

\* the direction the unrounded change of the two counts calls for
DirectionOf(c, p) ==
    IF p > 0
    THEN IF (c - p) * 100 > 10 * p THEN "rising"
         ELSE IF (c - p) * 100 < -10 * p THEN "falling"
         ELSE "stable"
    ELSE IF c > 0 THEN "rising" ELSE "stable"

\* C8: trend_direction is rising iff change_percent > 10, falling iff
\* change_percent < -10, stable otherwise (exactly 10 and exactly -10 are
\* stable); it is always one of the three values.
C8_DirectionThresholds ==
    /\ \A e \in TrendEntries \cup BirdTrendRows :
          /\ e.trend_direction \in {"rising", "falling", "stable"}
          /\ e.trend_direction = DirectionOf(e.current_count, e.previous_count)
    /\ \A r \in BirdTrendRows :
          /\ r.trend_direction = "rising" <=> r.change_percent.n > 10 * r.change_percent.d
          /\ r.trend_direction = "falling" <=> r.change_percent.n < -10 * r.change_percent.d

C8_Witness ==
    /\ op = "calculate_trends"
    /\ \E r \in BirdTrendRows :
          /\ r.current_count = 11
          /\ r.previous_count = 10
          /\ r.change_percent = [n |-> 10, d |-> 1]
          /\ r.trend_direction = "stable"

\* the species of the current-window query, each at its first row, with the
\* count of its last row
FirstRows == {k \in 1..Len(q_current) :
                 \A j \in 1..(k - 1) : q_current[j].species_code # q_current[k].species_code}

CountAt(k) ==
    LET same == {j \in 1..Len(q_current) :
                    q_current[j].species_code = q_current[k].species_code}
    IN q_current[CHOOSE j \in same : \A i \in same : i <= j].count

PreviousAt(k) ==
    IF q_current[k].species_code \in DOMAIN q_previous
    THEN q_previous[q_current[k].species_code] ELSE 0

KeptRows == {k \in FirstRows :
                CountAt(k) >= min_observations \/ PreviousAt(k) >= min_observations}

\* C9: a species of the current window is left out of the result iff its
\* current count and its previous count are both below min_observations.
C9_MinimumFilter ==
    op = "get_bird_trends" =>
        /\ \A e \in TrendEntries :
              e.current_count >= min_observations \/ e.previous_count >= min_observations
        /\ limit >= Cardinality(FirstRows) =>
              \A k \in FirstRows :
                  (\E e \in TrendEntries :
                      /\ e.species_code = q_current[k].species_code
                      /\ e.current_count = CountAt(k)
                      /\ e.previous_count = PreviousAt(k))
                  <=> k \in KeptRows
        /\ (min_observations = 5 /\ limit >= 1 /\ Len(q_current) = 1
                /\ q_current[1].count = 2) =>
              /\ PreviousAt(1) = 0 => trends = <<>>
              /\ PreviousAt(1) = 6 => Len(trends) = 1

C9_Witness ==
    /\ op = "get_bird_trends"
    /\ min_observations = 5
    /\ q_current = <<GroupRow("amerob", 2)>>
    /\ q_previous = [sp \in {"amerob"} |-> 6]
    /\ Len(trends) = 1
    /\ trends[1].current_count = 2

SortKeyAt(k) == FloatAbs(Round2(ChangePercent(CountAt(k), PreviousAt(k))))

\* place of a kept species in the ranking: after every kept species of a
\* larger key, and after the earlier kept species of the same key
RankAt(k) ==
    1 + Cardinality({j \in KeptRows : FloatLess(SortKeyAt(k), SortKeyAt(j))})
      + Cardinality({j \in KeptRows : j < k /\ SortKeyAt(j) = SortKeyAt(k)})

\* C10: the result is the first `limit` kept species by descending absolute
\* change_percent, equal keys in the order of the current-window query; it
\* never has more than `limit` entries (limit >= 0).
C10_RankedStableTruncated ==
    (op = "get_bird_trends" /\ limit >= 0) =>
        /\ Len(trends) <= limit
        /\ Len(trends) = IF limit < Cardinality(KeptRows) THEN limit
                         ELSE Cardinality(KeptRows)
        /\ \A k \in KeptRows :
              RankAt(k) <= Len(trends) =>
                  /\ trends[RankAt(k)].species_code = q_current[k].species_code
                  /\ FloatAbs(trends[RankAt(k)].change_percent) = SortKeyAt(k)

\* three kept species: the two tied at 100 come out in the order of the
\* query (not the alphabetical one), the third (-50) is cut by the limit
C10_Witness ==
    /\ op = "get_bird_trends"
    /\ limit = 2
    /\ Cardinality(KeptRows) = 3
    /\ q_current[1].species_code = "houfin"
    /\ q_current[2].species_code = "norcar"
    /\ q_current[3].species_code = "amerob"
    /\ Len(trends) = 2
    /\ trends[1].species_code = "norcar"
    /\ trends[2].species_code = "amerob"
    /\ trends[1].change_percent = [n |-> 100, d |-> 1]
    /\ trends[2].change_percent = [n |-> 100, d |-> 1]

\* the approved rows of one species the computation recorded in q_scope has
\* in the window [start, end), within its region when it has one
ApprovedRows(species_code, start, end) ==
    {i \in 1..Len(store) :
        /\ store[i].approved = 1
        /\ store[i].species_code = species_code
        /\ store[i].observation_date >= start
        /\ store[i].observation_date < end
        /\ q_scope.region_code # "" => store[i].region_code = q_scope.region_code}

\* C11: every trend of a computation on the table, of get_bird_trends and
\* of calculate_trends alike, counts in current_count and previous_count
\* only approved rows of its species, window and region: neither count
\* exceeds the number of those rows.
C11_OnlyApprovedCounted ==
    q_scope.days > 0 =>
        \A e \in TrendEntries \cup BirdTrendRows :
            /\ e.current_count <=
                  Cardinality(ApprovedRows(e.species_code, q_scope.now - q_scope.days,
                                           q_scope.now))
            /\ e.previous_count <=
                  Cardinality(ApprovedRows(e.species_code,
                                           q_scope.now - 2 * q_scope.days,
                                           q_scope.now - q_scope.days))

\* the closed region set, in the declaration order of the boxes
RegionOrder == <<"US-CA", "US-NY", "US-TX", "US-FL", "US-WA", "US-OR", "US-AZ", "US-CO">>

RegionSet == {RegionOrder[k] : k \in 1..Len(RegionOrder)}

OrderOf(code) == CHOOSE k \in 1..Len(RegionOrder) : RegionOrder[k] = code

HasPoint == coords.called /\ coords.lat # <<>> /\ coords.lon # <<>>

\* the boxes whose latitude range and longitude range both contain the point
BoxesAround ==
    {i \in BoxIndexes :
        /\ RegionBoxes[i].min_lat <= coords.lat[1]
        /\ coords.lat[1] <= RegionBoxes[i].max_lat
        /\ RegionBoxes[i].min_lon <= coords.lon[1]
        /\ coords.lon[1] <= RegionBoxes[i].max_lon}

\* C12: get_region_from_coords returns '' when a coordinate is missing or
\* no box contains the point, and otherwise the code of the box that comes
\* first in the order US-CA, US-NY, US-TX, US-FL, US-WA, US-OR, US-AZ,
\* US-CO among the boxes that contain it; the result is '' or one of the
\* eight codes.
C12_FirstBoxInOrder ==
    coords.called =>
        /\ coords.region \in {""} \cup RegionSet
        /\ IF ~HasPoint THEN coords.region = ""
           ELSE IF BoxesAround = {} THEN coords.region = ""
           ELSE /\ \E i \in BoxesAround : RegionBoxes[i].code = coords.region
                /\ \A i \in BoxesAround :
                      OrderOf(coords.region) <= OrderOf(RegionBoxes[i].code)

\* a point inside the boxes of US-CA and US-AZ gets US-CA
C12_Witness ==
    /\ coords.called
    /\ coords.lat = <<350>> /\ coords.lon = <<-1145>>
    /\ Cardinality(BoxesAround) = 2
    /\ coords.region = "US-CA"

\* the boxes the point lies on an edge of: one coordinate equals a bound
\* and the other is in the box's range
EdgeBoxes ==
    {i \in BoxesAround :
        \/ coords.lat[1] \in {RegionBoxes[i].min_lat, RegionBoxes[i].max_lat}
        \/ coords.lon[1] \in {RegionBoxes[i].min_lon, RegionBoxes[i].max_lon}}

\* C13 as stated: a point on an edge of a box is assigned that box's code.
C13_EdgeGetsItsBox ==
    HasPoint => \A i \in EdgeBoxes : coords.region = RegionBoxes[i].code

\* C13 amended: a point on an edge of a box is assigned that box's code
\* unless a box declared earlier contains the point too, and then the
\* code of the earliest such box.
C13_EdgeGetsFirstBox ==
    HasPoint =>
        \A i \in EdgeBoxes :
            /\ coords.region = RegionBoxes[Min(BoxesAround)].code
            /\ (\A j \in BoxesAround : j >= i) => coords.region = RegionBoxes[i].code

\* a point on the north edge of US-OR, inside US-WA, gets US-WA
C13_Witness ==
    /\ HasPoint
    /\ coords.lat = <<463>> /\ coords.lon = <<-1200>>
    /\ Cardinality(EdgeBoxes) = 1
    /\ coords.region = "US-WA"

StoredRows == {store[i] : i \in 1..Len(store)}

\* C14: the region_code of every row of the table is '' or one of the
\* eight codes of the closed region set, whatever the raw records carried.
C14_RegionInClosedSet ==
    \A r \in StoredRows : r.region_code \in {""} \cup RegionSet

\* C15: every row of the table has a species_code other than '' and an
\* observation_date (a day; 0 stands for none).
C15_SpeciesAndDatePresent ==
    \A r \in StoredRows : r.species_code # "" /\ r.observation_date > 0

\* the location_id a row stored for a served record would carry, for the
\* served records whose date is missing or does not parse
UndatedLocations ==
    {c.locId : c \in {x \in Checklists \cup OddChecklists : x.obsDt = 0}}
    \cup {o.locId : o \in {x \in EbirdRecords \cup OddEbirdRecords : x.obsDt = 0}}
    \cup {"inat_" \o o.id : o \in {x \in INatRecords \cup OddINatRecords : x.observed_on = 0}}
    \cup {"inatsounds_" \o a.id : a \in {x \in AudioRecords \cup OddAudioRecords : x.date = 0}}

\* C16: no row of the table comes from a raw record whose date is missing
\* or does not parse (no served record with a date shares the location of
\* one without).
C16_UndatedDropped ==
    \A r \in StoredRows : r.location_id \notin UndatedLocations

\* ------------------------------------------------- failures of a scope
LastScope(r) == r.scopes[Len(r.scopes)]

\* the observations extracted from the details of a region that answered
RECURSIVE AnsweredObservations(_, _, _)
AnsweredObservations(details, region_code, now) ==
    IF details = <<>> THEN 0
    ELSE (IF Head(details) = <<>> THEN 0
          ELSE Len(extract_singing_observations(Head(details)[1], region_code, now)))
         + AnsweredObservations(Tail(details), region_code, now)

\* the entries a step adds to run.scopes
NewScopes == {i \in 1..Len(run'.scopes) : i > Len(run.scopes)}

\* C17: a scope whose remote call failed contributes no rows and raises
\* nothing: the step that records it leaves the table as it was and the
\* loop goes on to the next scope (the pass is done only after its last
\* scope); a failed checklist detail removes only that checklist from what
\* its region fetches; a pass that raised nothing has handled every scope.
C17_FailedScopeOnlyAborted ==
    [][ /\ \A i \in NewScopes :
            LET e == run'.scopes[i]
            IN /\ e.failed =>
                    /\ store' = store
                    /\ e.fetched = 0
                    /\ ~e.commit_failed
                    /\ run'.status = IF Len(run'.scopes) < MaxScopes
                                     THEN "running" ELSE "done"
               /\ run'.adapter = "ebird_singing" /\ ~e.failed =>
                    e.fetched = AnsweredObservations(e.input, e.scope, NowOf(clock))
        /\ run'.status = "done" => Len(run'.scopes) = MaxScopes
        /\ run'.status = "running" => Len(run'.scopes) < MaxScopes ]_vars

\* a checklist pass is over: its first region failed to list, in its second
\* a detail call failed before one that answered, and rows were saved
C17_Witness ==
    /\ run.adapter = "ebird_singing"
    /\ run.status = "done"
    /\ run.scopes[1].failed
    /\ LET e == LastScope(run)
       IN /\ ~e.failed
          /\ ~e.commit_failed
          /\ Len(e.input) >= 2
          /\ e.input[1] = <<>>
          /\ e.fetched > 0
    /\ store # <<>>

\* ------------------------------------------------- failures of a commit
IsPrefix(a, b) == Len(a) <= Len(b) /\ SubSeq(b, 1, Len(a)) = a

\* what the save of the bulk-annotation path leaves when no commit fails
SoundsSavedInFull ==
    sounds_save_observations(store,
        us_birds(filter_bird_observations(Head(run.all_data).audio)), NowOf(clock)).db

\* C18: a failed commit ends the pass with the error raised: the scope it
\* happened in is the last one handled, the rows stored before that scope
\* are all still there and unchanged, and of the rows of that scope only
\* whole batches committed before the failure (CommitEvery rows each, bulk-
\* annotation path only) are stored; a pass that raised stays as it is.
C18_CommitFailureRollsBack ==
    [][ /\ \A i \in NewScopes :
            run'.scopes[i].commit_failed =>
                /\ i = Len(run'.scopes)
                /\ run'.status = "raised"
                /\ IsPrefix(store, store')
                /\ IF run.adapter = "inatsounds"
                   THEN /\ IsPrefix(store', SoundsSavedInFull)
                        /\ (Len(store') - Len(store)) % CommitEvery = 0
                   ELSE store' = store
        /\ run'.status = "raised" => LastScope(run').commit_failed
        /\ run.status = "raised" => run' = run /\ store' = store ]_vars

\* the bulk-annotation pass saved its first split, committed the first
\* batch of the second and failed at the next commit
C18_Witness ==
    /\ run.adapter = "inatsounds"
    /\ run.status = "raised"
    /\ Len(run.scopes) = 2
    /\ run.scopes[1].fetched > 0
    /\ ~run.scopes[1].commit_failed
    /\ run.scopes[2].commit_failed
    /\ store0 # <<>>
    /\ Len(store) = Len(store0) + CommitEvery

\* ------------------------------------------------------------- pacing
RemoteKinds == {"list", "detail", "taxonomy", "observations", "page"}

\* calls i < j to the remote service with no other call to it in between
Successive(i, j) ==
    /\ i < j
    /\ calls[i].kind \in RemoteKinds
    /\ calls[j].kind \in RemoteKinds
    /\ \A m \in (i + 1)..(j - 1) : calls[m].kind \notin RemoteKinds

\* the pairs the pacing is about: two checklist-detail calls of a region,
\* two page calls of a place, the calls of two successive regions
Paced(i, j) ==
    \/ calls[i].scope # calls[j].scope
    \/ calls[i].kind = "detail" /\ calls[j].kind = "detail"
    \/ calls[i].kind = "page" /\ calls[j].kind = "page"

\* C20: between two successive calls to the remote service (checklist
\* details of a region, pages of a place, the calls of successive regions)
\* the pass sleeps, whatever the earlier call returned.
C20_SleepBetweenCalls ==
    \A i, j \in 1..Len(calls) :
        Successive(i, j) /\ Paced(i, j) =>
            \E m \in (i + 1)..(j - 1) : calls[m].kind = "sleep"

\* ------------------------------------------- failure of one adapter
\* C19: with source 'all', a checklist adapter that fails, by the missing
\* key at import or by raising from its main(), is recorded as failed and
\* nothing else: the bulk-annotation fetch is started next, the statistics
\* after are those of the table at the end, and the closing line says
\* success only when both fetches succeeded.
C19_ChecklistFailureOnlyThatAdapter ==
    [][ /\ (combined.pc = "ebird" /\ combined'.pc # "ebird"
            /\ combined.source = "all" /\ ~combined.key) =>
                /\ ~combined'.ebird_success
                /\ combined'.pc = "inat"
                /\ store' = store
        /\ (combined.pc = "ebird_running" /\ combined'.pc # "ebird_running") =>
                /\ combined'.ebird_success = (run.status = "done")
                /\ combined'.pc = "inat"
                /\ store' = store
        /\ (combined.pc = "inat" /\ combined'.pc # "inat" /\ combined.source = "all") =>
                /\ combined'.pc = "inat_running"
                /\ run'.adapter = "inatsounds"
                /\ run'.status = "downloading"
        /\ (combined'.pc = "returned" /\ ~combined'.stats_only) =>
                /\ combined'.stats_after = <<get_database_stats(store')>>
                /\ (combined'.report = "All fetches completed successfully!")
                        = (combined'.ebird_success /\ combined'.inat_success) ]_vars

\* the combined fetch is over: the key was missing, the bulk-annotation
\* fetch saved rows all the same and the closing line reports issues
C19_Witness ==
    /\ combined.pc = "returned"
    /\ combined.source = "all"
    /\ ~combined.stats_only
    /\ ~combined.key
    /\ ~combined.ebird_success
    /\ combined.inat_success
    /\ combined.stats_after # <<>>
    /\ combined.stats_after[1].inaturalist > 0
    /\ combined.stats_after[1].ebird = 0
    /\ combined.report = "Some fetches had issues"

C22_ChangePercentRounded ==
    /\ \A r \in BirdTrendRows :
          IsRoundedChangeOf(r.change_percent, r.current_count, r.previous_count)
    /\ \A e \in TrendEntries :
          IsRoundedChangeOf(e.change_percent, e.current_count, e.previous_count)

\* ------------------------------------------------- concurrent passes
\* the identity key by which the save of an adapter looks a candidate up,
\* of a stored row and of a candidate
LookupKey(adapter, r) ==
    IF adapter = "ebird_singing"
    THEN <<r.species_code, r.location_id, r.observation_date>>
    ELSE <<r.location_id, r.source>>

CandidateKey(adapter, obs) ==
    IF adapter = "ebird_singing"
    THEN <<obs.species_code, obs.location_id, obs.observation_date>>
    ELSE <<obs.location_id, "inatsounds">>

\* the lookups of the key that found nothing, over all sessions
MissedLookups(ss, adapter, key) ==
    UNION {{<<m, j>> : j \in {x \in 1..Len(ss[m].done) :
                                 /\ ~ss[m].done[x].found
                                 /\ CandidateKey(adapter, ss[m].done[x].obs) = key}} :
           m \in 1..Len(ss)}

\* C23: the lookup and the insert of a save are two steps and nothing in
\* the table stands between them: a commit always stores every row its
\* session added, after the rows the table has by then; so when all passes
\* have committed, an identity key has as many rows as there were lookups
\* of it that found nothing, two when two passes both looked it up before
\* either committed.
C23_ConcurrentDoubleInsert ==
    [][ /\ \A n \in 1..Len(sessions) :
            (sessions[n].pc = "loop" /\ sessions'[n].pc = "committed") =>
                /\ Len(store') = Len(store) + sessions[n].s.saved
                /\ SubSeq(store', Len(store) + 1, Len(store')) = sessions[n].s.pending
        /\ (sessions' # <<>> /\ \A n \in 1..Len(sessions') : sessions'[n].pc = "committed") =>
            \A n \in 1..Len(sessions') : \A k \in 1..Len(sessions'[n].done) :
                LET adapter == sessions'[n].adapter
                    key == CandidateKey(adapter, sessions'[n].done[k].obs)
                IN Cardinality({i \in 1..Len(store') :
                                   LookupKey(adapter, store'[i]) = key})
                       = Cardinality(MissedLookups(sessions', adapter, key)) ]_vars

\* two passes have committed, each after a lookup of the same identity key
\* that found nothing, and the table has two rows of that key
C23_Witness ==
    /\ Len(sessions) = 2
    /\ \A n \in 1..2 : sessions[n].pc = "committed"
    /\ Len(sessions[1].done) = 1
    /\ Len(sessions[2].done) = 1
    /\ ~sessions[1].done[1].found
    /\ ~sessions[2].done[1].found
    /\ sessions[1].done[1].obs = sessions[2].done[1].obs
    /\ Len(store) = 2
    /\ LookupKey(sessions[1].adapter, store[1]) = LookupKey(sessions[1].adapter, store[2])

\* ------------------------------------------------------- the two windows
\* the rows of a species dated from lo to hi that pass the other filters
\* of the computation that ran (its region, and approval where it filters
\* on it)
DatedRows(species_code, lo, hi) ==
    {i \in 1..Len(store) :
        /\ store[i].species_code = species_code
        /\ store[i].observation_date \in lo..hi
        /\ q_scope.region_code # "" => store[i].region_code = q_scope.region_code
        /\ op = "calculate_trends" => store[i].approved = 1}

RECURSIVE SumCounts(_, _)
SumCounts(rows, species_code) ==
    IF rows = <<>> THEN 0
    ELSE (IF Head(rows).species_code = species_code THEN Head(rows).count ELSE 0)
         + SumCounts(Tail(rows), species_code)

StoredSpecies == {store[i].species_code : i \in 1..Len(store)}

\* C24: with D days and the computation run at now, the current-window
\* query counts exactly the rows dated now-D .. now-1 and the
\* previous-window query exactly the rows dated now-2D .. now-D-1: a row
\* dated now-D is in the current window only, one dated now-2D in the
\* previous window only, one dated now in neither, and no row in both.
C24_WindowsHalfOpenAdjacent ==
    q_scope.days > 0 =>
        \A sp \in StoredSpecies :
            /\ SumCounts(q_current, sp)
                  = Cardinality(DatedRows(sp, q_scope.now - q_scope.days, q_scope.now - 1))
            /\ PreviousCount(q_previous, sp)
                  = Cardinality(DatedRows(sp, q_scope.now - 2 * q_scope.days,
                                          q_scope.now - q_scope.days - 1))

\* a computation ran on a table with a row dated now-D and a row dated
\* now-2D and counted one in each window
C24_Witness ==
    /\ q_scope.days > 0
    /\ \E i, j \in 1..Len(store) :
        /\ store[i].observation_date = q_scope.now - q_scope.days
        /\ store[j].observation_date = q_scope.now - 2 * q_scope.days
        /\ store[i].species_code = store[j].species_code
        /\ SumCounts(q_current, store[i].species_code) = 1
        /\ PreviousCount(q_previous, store[i].species_code) = 1

\* ------------------------------------------------- counts per species
\* C25: the current_count of every trend of a computation is the number
\* of rows of its species code in the current window that pass the
\* filters, and the computation makes at most one trend per species code,
\* whatever common names the rows of a species carry.
C25_CurrentCountPerSpecies ==
    q_scope.days > 0 =>
        /\ \A e \in TrendEntries \cup BirdTrendRows :
              e.current_count
                  = Cardinality(DatedRows(e.species_code, q_scope.now - q_scope.days,
                                          q_scope.now - 1))
        /\ \A i, j \in 1..Len(trends) :
              trends[i].species_code = trends[j].species_code => i = j
        /\ \A i, j \in 1..Len(bird_trends) :
              bird_trends[i].species_code = bird_trends[j].species_code => i = j

C27_MalformedRecordNotFatal ==
    [][ (run.adapter = "inatsounds" /\ run.status = "running"
         /\ Len(run'.scopes) = Len(run.scopes) + 1
         /\ ~LastScope(run').commit_failed)
        => /\ run'.status # "raised"
           /\ \A i \in DOMAIN Head(run.all_data).audio :
                LET audio == Head(run.all_data).audio[i]
                IN (~AudioRaises(audio) /\ us_birds(FilterAudio(audio)) # <<>>)
                   => FirstByLocSource(store', "inatsounds_" \o audio.id,
                                       "inatsounds") # 0 ]_vars

\* C28: on a service that serves page p of size s as items (p-1)*s .. p*s-1
\* of a fixed list, fetch_bird_audio_observations with max_results > 200
\* returns at most max_results observations, pairwise distinct, that are
\* the first min(max_results, total_results) items of the list.
C28_PagedFetchIsPrefix ==
    paged.called =>
        LET n == Min({paged.max_results, paged.total_results})
        IN /\ Len(paged.observations) <= paged.max_results
           /\ \A i, j \in DOMAIN paged.observations :
                i # j => paged.observations[i] # paged.observations[j]
           /\ paged.observations = [i \in 1..n |-> i - 1]

\* the table after the generic checklist path stored e and the 'singing'
\* path then met s, and after the two in the other order
EbirdThenSinging(e, s, now) ==
    save_singing_observations(ebird_save_observations(<<>>, <<e>>).db, <<s>>, now).db

SingingThenEbird(s, e, now) ==
    ebird_save_observations(save_singing_observations(<<>>, <<s>>, now).db, <<e>>).db

\* the candidates of a list that have the key
WithKey(b, key) == {i \in 1..Len(b) : KeyOf(b[i]) = key}

\* C29: when one checklist observation (same species_code, location_id and
\* observation_date) was stored by one of the two checklist paths and then
\* met by the other, the is_vocal of its single row is the one the two
\* paths give in the other order, for every media flag and breeding code.
C29_VocalOrderIndependent ==
    \A i \in 1..Len(batch), j \in 1..Len(batch0), k \in 1..Len(store) :
        ( /\ {path, path0} = ChecklistSources
          /\ KeyOf(batch[i]) = KeyOf(batch0[j])
          /\ WithKey(batch, KeyOf(batch[i])) = {i}
          /\ WithKey(batch0, KeyOf(batch[i])) = {j}
          /\ WithKey(store, KeyOf(batch[i])) = {k}
          /\ store[k].source = path0
          /\ store[k].fetched_at = NowOf(clock - 2) )
        => store[k].is_vocal =
            IF path = "ebird"
            THEN EbirdThenSinging(batch[i], batch0[j], NowOf(clock))[1].is_vocal
            ELSE SingingThenEbird(batch[i], batch0[j], NowOf(clock))[1].is_vocal

\* the species a trend query result names
CurrentSpecies == {q_current[k].species_code : k \in 1..Len(q_current)}

NoEntryWithoutCurrent ==
    /\ \A e \in TrendEntries \cup BirdTrendRows :
          /\ e.current_count >= 1
          /\ e.species_code \in CurrentSpecies
          /\ ~(e.current_count = 0 /\ e.previous_count = 0)
    /\ \A sp \in (DOMAIN q_previous) \ CurrentSpecies :
          \A e \in TrendEntries \cup BirdTrendRows : e.species_code # sp

\* C30 (as stated): every trend entry has current_count >= 1, a species
\* counted in the previous window and absent from the current one has no
\* entry, the branch for two zero counts is never taken, and change_percent
\* is always greater than -100.
C30_ChangeAboveMinusHundred ==
    /\ NoEntryWithoutCurrent
    /\ \A e \in TrendEntries \cup BirdTrendRows :
          e.change_percent.n > -100 * e.change_percent.d

\* C30 (amended): the same, with change_percent never below -100: the
\* value calculate_trends stores is greater than -100, the value
\* get_bird_trends returns, rounded to 2 decimals, can be -100.0.
C30_ChangeNotBelowMinusHundred ==
    /\ NoEntryWithoutCurrent
    /\ \A e \in BirdTrendRows : e.change_percent.n > -100 * e.change_percent.d
    /\ \A e \in TrendEntries : e.change_percent.n >= -100 * e.change_percent.d

\* a computation whose previous window counted a species its current
\* window lacks, and that made entries for the species it iterated
C30_Witness ==
    /\ op # "none"
    /\ (DOMAIN q_previous) \ CurrentSpecies # {}
    /\ TrendEntries \cup BirdTrendRows # {}
    /\ \E e \in TrendEntries \cup BirdTrendRows :
          e.previous_count > e.current_count

====
